---- MODULE Spec2Model ----
(***************************************************************************)
(* Model of the per-article extraction pipeline of the BMS magazine        *)
(* algorithm (src/bms_article_text.py) and of the batch runner that drives *)
(* it (src/bms_run_extraction.py).                                         *)
(*                                                                         *)
(* Conventions                                                             *)
(*   - a text is a tuple of one-character strings; "*" stands for the      *)
(*     bullet glyph U+2022, "'" and "\"" for the closing-quote glyphs,     *)
(*     "~" for the soft hyphen U+00AD, "_" for the en dash U+2013 and "^"  *)
(*     for the no-break space U+00A0 (and the thin space U+2009);          *)
(*   - lengths (font sizes, coordinates) are integers: font sizes are in   *)
(*     tenths of a point, coordinates in points;                           *)
(*   - an Optional[int] is <<>> (None) or <<n>>;                           *)
(*   - Python's 0-based positions are kept for page, column and            *)
(*     order_index; positions inside tuples are 1-based.                   *)
(***************************************************************************)
EXTENDS Integers, Sequences, FiniteSets, TLC

VARIABLES
  pdf_files,              \* main: the magazines of the batch (read-only input)
  pdf_i,                  \* main: position in "for pdf_path in pdf_files"
  art_i,                  \* process_magazine_pdf: position in "for idx, article"
  pc,                     \* where the program is
  start_index,            \* extract_article_blocks locals
  page_index,
  blocks,
  order_index,
  body_seen,
  end_reached,
  last_page_with_content,
  ret,                    \* what extract_article_blocks returned
  fields,                 \* page-range fields stored on each article
  exported,               \* articles whose TXT/JSON output has been written
  diag,                   \* diagnostics printed so far
  reads,                  \* doc[page_index] calls of the current extraction
  block_lines,            \* the candidate line each block was appended for
  fn, arg, out            \* a pure function applied on its own: name, input, result

vars == <<pdf_files, pdf_i, art_i, pc, start_index, page_index, blocks,
          order_index, body_seen, end_reached, last_page_with_content, ret,
          fields, exported, diag, reads, block_lines, fn, arg, out>>

(***************************************************************************)
(* Bounds of the model.                                                    *)
(***************************************************************************)
MaxPages == 2        \* pages per document
MaxLines == 3        \* visual lines per document
MaxTextLen == 5      \* characters of a text given to check_end_marker alone
MaxPdfs == 2         \* magazines in a batch
MaxArticles == 2     \* articles per magazine in a batch
MaxColumnLines == 4  \* lines of a page given to assign_columns alone
MaxBlocks == 3       \* blocks of a list given to a block-list stage alone
MaxPipelineBlocks == 4  \* blocks of a list given to the two block-list stages in turn
MaxStream == 4       \* blocks of a block stream given to the renderer alone
MaxReflowLen == 4    \* characters of a text given to the reflow stage alone,
                     \* behind the word that fills its first line

(***************************************************************************)
(* Program constants.                                                      *)
(***************************************************************************)
RELEVANT_SIZE_MIN == 85
RELEVANT_SIZE_MAX == 95
COLUMN_GAP_THRESHOLD == 60
default_width == 80  \* _dehyphenate_and_reflow(text, width=80)

None == <<>>
Some(x) == <<x>>
IsNone(o) == o = <<>>
Val(o) == o[1]

(***************************************************************************)
(* Generic helpers on tuples.                                              *)
(***************************************************************************)
Range(s) == {s[k] : k \in 1..Len(s)}

SeqsUpTo(S, n) == UNION {[1..k -> S] : k \in 0..n}

Min2(a, b) == IF a <= b THEN a ELSE b

Abs(x) == IF x < 0 THEN -x ELSE x

\* Lexicographic <= on pairs of integers (Python tuple comparison).
PairLE(k1, k2) == k1[1] < k2[1] \/ (k1[1] = k2[1] /\ k1[2] <= k2[2])

\* list.sort / sorted: a stable sort of keyed items [k |-> <<k1, k2>>, v |-> x]
\* by their key; InsertKeyed puts x behind every item whose key is <= its own.
RECURSIVE InsertKeyed(_, _)
InsertKeyed(x, s) ==
  IF s = <<>> THEN <<x>>
  ELSE IF PairLE(s[Len(s)].k, x.k) THEN Append(s, x)
  ELSE Append(InsertKeyed(x, SubSeq(s, 1, Len(s) - 1)), s[Len(s)])

RECURSIVE SortKeyed(_)
SortKeyed(s) ==
  IF s = <<>> THEN <<>>
  ELSE InsertKeyed(s[Len(s)], SortKeyed(SubSeq(s, 1, Len(s) - 1)))

Values(s) == [k \in 1..Len(s) |-> s[k].v]

(***************************************************************************)
(* Characters.                                                             *)
(***************************************************************************)
Bullet == "*"
Period == "."
closing_quotes == {"'", "\""}
Newline == "\n"
NoBreakSpace == "^"
Whitespace == {" ", Newline, NoBreakSpace}
IsSpace(c) == c \in Whitespace

\* str.lstrip() / str.rstrip()
RECURSIVE LStrip(_)
LStrip(t) ==
  IF t # <<>> /\ IsSpace(t[1]) THEN LStrip(Tail(t)) ELSE t

RECURSIVE RStrip(_)
RStrip(t) ==
  IF t # <<>> /\ IsSpace(t[Len(t)]) THEN RStrip(SubSeq(t, 1, Len(t) - 1)) ELSE t

\* str.strip()
Strip(t) == LStrip(RStrip(t))

\* str.isalpha() of one character
Letters == {"a", "b"}
IsAlpha(c) == c \in Letters

\* str.endswith(c)
EndsWith(t, c) == t # <<>> /\ t[Len(t)] = c

Hyphen == "-"
SoftHyphen == "~"
EnDash == "_"

\* str.rfind(c): the last position of c in t, 0 if there is none.
RFind(t, c) ==
  IF c \notin Range(t) THEN 0
  ELSE CHOOSE k \in 1..Len(t) : t[k] = c /\ \A m \in (k + 1)..Len(t) : t[m] # c

\* "while j >= 0 and t[j] in S: j -= 1" with 1-based positions.
RECURSIVE SkipBack(_, _, _)
SkipBack(t, j, S) ==
  IF j >= 1 /\ t[j] \in S THEN SkipBack(t, j - 1, S) ELSE j

(***************************************************************************)
(* ArticlePageLine: text, bbox (x0, x1 and y_top = y0), font signals, and  *)
(* the column index, None until assign_columns has run.                    *)
(***************************************************************************)
Line(text, x0, x1, y_top, size, univers, minion, bold) ==
  [text |-> text, x0 |-> x0, x1 |-> x1, y_top |-> y_top,
   max_font_size |-> size, has_univers |-> univers, has_minion |-> minion,
   is_bold_like |-> bold, column_index |-> None]

x_left(ln) == ln.x0
width(ln) == ln.x1 - ln.x0

\* collect_page_lines ends with a stable sort by (round(y_top, 1),
\* round(x_center, 1)); with integer coordinates x0 + x1 orders as x_center.
collect_page_lines(page) ==
  Values(SortKeyed([k \in 1..Len(page) |->
            [k |-> <<page[k].y_top, page[k].x0 + page[k].x1>>, v |-> page[k]]]))

is_relevant_main_text(line) ==
  IF line.max_font_size < RELEVANT_SIZE_MIN \/ line.max_font_size > RELEVANT_SIZE_MAX
  THEN FALSE
  ELSE IF ~(line.has_univers \/ line.has_minion) THEN FALSE
  ELSE TRUE

RECURSIVE candidate_lines_of(_)
candidate_lines_of(all_lines) ==
  IF all_lines = <<>> THEN <<>>
  ELSE LET rest == candidate_lines_of(SubSeq(all_lines, 1, Len(all_lines) - 1))
           ln == all_lines[Len(all_lines)]
       IN IF is_relevant_main_text(ln) THEN Append(rest, ln) ELSE rest

(***************************************************************************)
(* assign_columns                                                          *)
(***************************************************************************)
sorted_widths(lines) ==
  Values(SortKeyed([k \in 1..Len(lines) |->
            [k |-> <<width(lines[k]), 0>>, v |-> width(lines[k])]]))

median_width(lines) ==
  LET widths_sorted == sorted_widths(lines)
  IN IF widths_sorted # <<>> THEN widths_sorted[(Len(widths_sorted) \div 2) + 1] ELSE 0

\* anchors: width >= 0.6 * median_width, all lines if there is none
RECURSIVE wide_lines(_, _)
wide_lines(lines, median) ==
  IF lines = <<>> THEN <<>>
  ELSE LET rest == wide_lines(SubSeq(lines, 1, Len(lines) - 1), median)
           ln == lines[Len(lines)]
       IN IF 10 * width(ln) >= 6 * median THEN Append(rest, ln) ELSE rest

anchors_of(lines) ==
  LET anchors == wide_lines(lines, median_width(lines))
  IN IF anchors = <<>> THEN lines ELSE anchors

anchors_sorted_of(anchors) ==
  Values(SortKeyed([k \in 1..Len(anchors) |->
            [k |-> <<x_left(anchors[k]), 0>>, v |-> anchors[k]]]))

\* the greedy loop over anchors_sorted, from position k, with the centers so far
RECURSIVE build_lefts(_, _, _)
build_lefts(anchors_sorted, k, lefts) ==
  IF k > Len(anchors_sorted) THEN lefts
  ELSE LET x == x_left(anchors_sorted[k])
       IN IF lefts = <<>> THEN build_lefts(anchors_sorted, k + 1, <<x>>)
          ELSE IF \A c \in Range(lefts) : Abs(x - c) > COLUMN_GAP_THRESHOLD
               THEN build_lefts(anchors_sorted, k + 1, Append(lefts, x))
               ELSE build_lefts(anchors_sorted, k + 1, lefts)

\* column_lefts without the cap at three centers
column_lefts_uncapped(lines) ==
  LET anchors_sorted == anchors_sorted_of(anchors_of(lines))
      found == build_lefts(anchors_sorted, 1, <<>>)
  IN IF found = <<>> THEN <<x_left(anchors_sorted[1])>> ELSE found

column_lefts(lines) ==
  LET anchors_sorted == anchors_sorted_of(anchors_of(lines))
      found == build_lefts(anchors_sorted, 1, <<>>)
      lefts == IF found = <<>> THEN <<x_left(anchors_sorted[1])>> ELSE found
  IN SubSeq(lefts, 1, Min2(3, Len(lefts)))

\* distances.index(min(distances)), 0-based
nearest_index(x, lefts) ==
  LET dist(k) == Abs(x - lefts[k])
      best == CHOOSE k \in 1..Len(lefts) :
                /\ \A m \in 1..Len(lefts) : dist(k) <= dist(m)
                /\ \A m \in 1..(k - 1) : dist(m) > dist(k)
  IN best - 1

\* assign_columns counting on from the index a line already carries
assign_columns_counting_on(lines) ==
  IF lines = <<>> THEN lines
  ELSE LET lefts == column_lefts(lines)
           carried(ln) == IF IsNone(ln.column_index) THEN 0 ELSE Val(ln.column_index)
       IN [k \in 1..Len(lines) |->
             [lines[k] EXCEPT !.column_index =
                Some(carried(lines[k]) + nearest_index(x_left(lines[k]), lefts))]]

assign_columns(lines) ==
  IF lines = <<>> THEN lines
  ELSE LET lefts == column_lefts(lines)
       IN [k \in 1..Len(lines) |->
             [lines[k] EXCEPT !.column_index = Some(nearest_index(x_left(lines[k]), lefts))]]

\* "ln.column_index or 0"
column_or_0(ln) == IF IsNone(ln.column_index) THEN 0 ELSE Val(ln.column_index)

\* reading_order with each column read from the bottom line upwards
reading_order_bottom_up(lines) ==
  Values(SortKeyed([k \in 1..Len(lines) |->
            [k |-> <<column_or_0(lines[k]), 0 - lines[k].y_top>>, v |-> lines[k]]]))

\* candidate_lines.sort(key=lambda ln: (ln.column_index or 0, ln.y_top))
reading_order(lines) ==
  Values(SortKeyed([k \in 1..Len(lines) |->
            [k |-> <<column_or_0(lines[k]), lines[k].y_top>>, v |-> lines[k]]]))

(***************************************************************************)
(* determine_line_texttype: "NONE" is Python's None.                       *)
(***************************************************************************)
\* determine_line_texttype with the bold test made before the family test:
\* a bold line that mixes both families is taken for a header
determine_line_texttype_bold_first(line, seen) ==
  IF ~is_relevant_main_text(line) THEN "NONE"
  ELSE IF line.has_minion /\ ~line.has_univers THEN "BODY"
  ELSE IF line.has_univers /\ line.is_bold_like
       THEN IF ~seen THEN "INTRO" ELSE "SUBHEADING"
  ELSE "BODY"

determine_line_texttype(line, seen) ==
  IF ~is_relevant_main_text(line) THEN "NONE"
  ELSE IF line.has_minion /\ ~line.has_univers THEN "BODY"
  ELSE IF line.has_univers /\ ~line.has_minion
       THEN IF line.is_bold_like
            THEN IF ~seen THEN "INTRO" ELSE "SUBHEADING"
            ELSE "BODY"
  ELSE "BODY"

(***************************************************************************)
(* check_end_marker: <<is_end, cleaned_text>>                              *)
(***************************************************************************)
\* check_end_marker cutting the text at the period: the closing quotes
\* between the period and the bullet are lost
check_end_marker_cut_at_period(line) ==
  LET t == line.text
      stripped == LStrip(t)
      bullet_idx == RFind(t, Bullet)
      quote_end == SkipBack(t, bullet_idx - 1, Whitespace)
      j == SkipBack(t, quote_end, closing_quotes)
  IN IF Bullet \notin Range(t) THEN <<FALSE, t>>
     ELSE IF stripped # <<>> /\ stripped[1] = Bullet THEN <<FALSE, t>>
     ELSE IF bullet_idx = 0 THEN <<FALSE, t>>
     ELSE IF quote_end < 1 THEN <<FALSE, t>>
     ELSE IF j < 1 \/ t[j] # Period THEN <<FALSE, t>>
     ELSE <<TRUE, RStrip(SubSeq(t, 1, j))>>

check_end_marker(line) ==
  LET t == line.text
      stripped == LStrip(t)
      bullet_idx == RFind(t, Bullet)
      quote_end == SkipBack(t, bullet_idx - 1, Whitespace)
      j == SkipBack(t, quote_end, closing_quotes)
  IN IF Bullet \notin Range(t) THEN <<FALSE, t>>
     ELSE IF stripped # <<>> /\ stripped[1] = Bullet THEN <<FALSE, t>>
     ELSE IF bullet_idx = 0 THEN <<FALSE, t>>
     ELSE IF quote_end < 1 THEN <<FALSE, t>>
     ELSE IF j < 1 \/ t[j] # Period THEN <<FALSE, t>>
     ELSE <<TRUE, RStrip(SubSeq(t, 1, quote_end))>>

(***************************************************************************)
(* extract_article_blocks: the body of the page loop.                      *)
(*   st is the tuple of locals (blocks, order_index, body_seen,            *)
(*   end_reached, last_page_with_content).                                 *)
(***************************************************************************)
Block(texttype, text, page, column, idx) ==
  [texttype |-> texttype, text |-> text, page |-> page, column |-> column,
   order_index |-> idx]

block_texttype_of(texttype) ==
  IF texttype = "INTRO" THEN "INTRO"
  ELSE IF texttype = "SUBHEADING" THEN "SUBHEADING"
  ELSE "PARAGRAPH"

\* append_line that never notes that body text has been seen
append_line_flag_forgotten(st, ln, p, texttype) ==
  LET em == check_end_marker(ln)
  IN [blocks |-> Append(st.blocks,
                   Block(block_texttype_of(texttype), em[2], p, column_or_0(ln),
                         st.order_index)),
      order_index |-> st.order_index + 1,
      body_seen |-> st.body_seen,
      end_reached |-> IF em[1] THEN TRUE ELSE st.end_reached,
      last_page_with_content |-> Some(p),
      block_lines |-> Append(st.block_lines, ln)]

\* one classified line: lines 499-525
append_line(st, ln, p, texttype) ==
  LET em == check_end_marker(ln)
  IN [blocks |-> Append(st.blocks,
                   Block(block_texttype_of(texttype), em[2], p, column_or_0(ln),
                         st.order_index)),
      order_index |-> st.order_index + 1,
      body_seen |-> IF texttype = "BODY" THEN TRUE ELSE st.body_seen,
      end_reached |-> IF em[1] THEN TRUE ELSE st.end_reached,
      last_page_with_content |-> Some(p),
      block_lines |-> Append(st.block_lines, ln)]

\* scan_lines without the break at the end marker: the rest of the page is
\* still appended
RECURSIVE scan_lines_no_break(_, _, _, _)
scan_lines_no_break(lines, k, p, st) ==
  IF k > Len(lines) THEN st
  ELSE LET texttype == determine_line_texttype(lines[k], st.body_seen)
       IN IF texttype = "NONE" THEN scan_lines_no_break(lines, k + 1, p, st)
          ELSE scan_lines_no_break(lines, k + 1, p,
                                   append_line(st, lines[k], p, texttype))

\* "for ln in candidate_lines" from position k: lines 494-526
RECURSIVE scan_lines(_, _, _, _)
scan_lines(lines, k, p, st) ==
  IF k > Len(lines) THEN st
  ELSE LET texttype == determine_line_texttype(lines[k], st.body_seen)
       IN IF texttype = "NONE" THEN scan_lines(lines, k + 1, p, st)
          ELSE LET st2 == append_line(st, lines[k], p, texttype)
               IN IF check_end_marker(lines[k])[1] THEN st2
                  ELSE scan_lines(lines, k + 1, p, st2)

\* scan_page with the order_index counter restarted on every page
scan_page_order_per_page(page, p, st) ==
  LET all_lines == collect_page_lines(page)
      candidate_lines == candidate_lines_of(all_lines)
  IN IF candidate_lines = <<>> THEN st
     ELSE scan_lines(reading_order(assign_columns(candidate_lines)), 1, p,
                     [st EXCEPT !.order_index = 0])

\* scan_page with the body-seen flag kept per page instead of per article
scan_page_flag_per_page(page, p, st) ==
  LET all_lines == collect_page_lines(page)
      candidate_lines == candidate_lines_of(all_lines)
  IN IF candidate_lines = <<>> THEN st
     ELSE scan_lines(reading_order(assign_columns(candidate_lines)), 1, p,
                     [st EXCEPT !.body_seen = FALSE])

\* scan_page taking a page without main text for the end of the article
scan_page_stop_at_empty(page, p, st) ==
  LET all_lines == collect_page_lines(page)
      candidate_lines == candidate_lines_of(all_lines)
  IN IF candidate_lines = <<>> THEN [st EXCEPT !.end_reached = TRUE]
     ELSE scan_lines(reading_order(assign_columns(candidate_lines)), 1, p, st)

\* one iteration of "for page_index in range(start_index, len(doc))": 478-529
scan_page(page, p, st) ==
  LET all_lines == collect_page_lines(page)
      candidate_lines == candidate_lines_of(all_lines)
  IN IF candidate_lines = <<>> THEN st
     ELSE scan_lines(reading_order(assign_columns(candidate_lines)), 1, p, st)

\* doc[i] of PyMuPDF: a negative index counts from the end (0-based i)
load_page(doc, i) == IF i < 0 THEN doc[i + Len(doc) + 1] ELSE doc[i + 1]

(***************************************************************************)
(* fix_hyphenation_across_block_breaks                                     *)
(***************************************************************************)
\* hyphen_chars; the en dash stands for U+2010 .. U+2014
hyphen_chars == {Hyphen, SoftHyphen, EnDash}

mergeable_texttypes == {"PARAGRAPH", "INTRO", "SUBHEADING"}

\* the regular-expression class [A-Za-zÀ-ÿ]
IsLetter(c) == c \in Letters

\* "while j <= n and t[j] in S: j += 1"
SkipForward(t, j, S) ==
  CHOOSE k \in j..(Len(t) + 1) :
    /\ k > Len(t) \/ t[k] \notin S
    /\ \A m \in j..(k - 1) : t[m] \in S

\* re_end_hyphen.match(t): prefix (lazy), left (the run of letters), then
\* whitespace, one hyphen character and whitespace up to the end
re_end_hyphen(t) ==
  LET h == SkipBack(t, Len(t), Whitespace)
      w == SkipBack(t, h - 1, Whitespace)
      l == SkipBack(t, w, Letters)
  IN IF h >= 1 /\ t[h] \in hyphen_chars /\ w >= 1 /\ IsLetter(t[w])
     THEN [matched |-> TRUE, prefix |-> SubSeq(t, 1, l), left |-> SubSeq(t, l + 1, w)]
     ELSE [matched |-> FALSE, prefix |-> <<>>, left |-> <<>>]

\* re_start_letters.match(t): lead (whitespace and other non-letters), right
\* (the first run of letters) and rest
re_start_letters(t) ==
  LET f == SkipForward(t, 1, Range(t) \ Letters)
      r == SkipForward(t, f, Letters)
  IN IF f <= Len(t)
     THEN [matched |-> TRUE, lead |-> SubSeq(t, 1, f - 1),
           right |-> SubSeq(t, f, r - 1), rest |-> SubSeq(t, r, Len(t))]
     ELSE [matched |-> FALSE, lead |-> t, right |-> <<>>, rest |-> <<>>]

\* fix_hyphenation_from merging a pair whatever the kinds of its two blocks
RECURSIVE fix_hyphenation_from_any_kind(_, _, _)
fix_hyphenation_from_any_kind(bs, i, fixed) ==
  IF i > Len(bs) THEN fixed
  ELSE LET current == bs[i]
       IN IF /\ current.texttype \in mergeable_texttypes
             /\ i + 1 <= Len(bs)
             /\ re_end_hyphen(RStrip(current.text)).matched
             /\ re_start_letters(bs[i + 1].text).matched
          THEN LET m1 == re_end_hyphen(RStrip(current.text))
                   m2 == re_start_letters(bs[i + 1].text)
                   merged_text == m1.prefix \o m1.left \o m2.right \o m2.rest
               IN fix_hyphenation_from_any_kind(bs, i + 2,
                    Append(fixed, Block(current.texttype, merged_text, current.page,
                                        current.column, current.order_index)))
          ELSE fix_hyphenation_from_any_kind(bs, i + 1, Append(fixed, current))

\* the "while i < n" loop from position i with the list built so far
RECURSIVE fix_hyphenation_from(_, _, _)
fix_hyphenation_from(bs, i, fixed) ==
  IF i > Len(bs) THEN fixed
  ELSE LET current == bs[i]
       IN IF /\ current.texttype \in mergeable_texttypes
             /\ i + 1 <= Len(bs)
             /\ bs[i + 1].texttype = current.texttype
             /\ re_end_hyphen(RStrip(current.text)).matched
             /\ re_start_letters(bs[i + 1].text).matched
          THEN LET m1 == re_end_hyphen(RStrip(current.text))
                   m2 == re_start_letters(bs[i + 1].text)
                   merged_text == m1.prefix \o m1.left \o m2.right \o m2.rest
               IN fix_hyphenation_from(bs, i + 2,
                    Append(fixed, Block(current.texttype, merged_text, current.page,
                                        current.column, current.order_index)))
          ELSE fix_hyphenation_from(bs, i + 1, Append(fixed, current))

fix_hyphenation_across_block_breaks(bs) ==
  IF bs = <<>> THEN bs ELSE fix_hyphenation_from(bs, 1, <<>>)

(***************************************************************************)
(* _dehyphenate_and_reflow                                                 *)
(***************************************************************************)
\* text.replace(soft hyphen, "").replace(no-break space, " ").replace(thin
\* space, " ")
normalize_unicode(t) ==
  LET kept == SelectSeq(t, LAMBDA c : c # SoftHyphen)
  IN [k \in 1..Len(kept) |-> IF kept[k] = NoBreakSpace THEN " " ELSE kept[k]]

\* text.strip("\n")
RECURSIVE strip_newlines(_)
strip_newlines(t) ==
  IF t # <<>> /\ t[1] = Newline THEN strip_newlines(Tail(t))
  ELSE IF t # <<>> /\ t[Len(t)] = Newline
       THEN strip_newlines(SubSeq(t, 1, Len(t) - 1))
  ELSE t

\* the leftmost match of "\n\s*\n" in t as <<first, last>>, <<0, 0>> if
\* there is none: \s* is greedy, so the match ends at the last newline of
\* the whitespace that follows its first newline
blank_line_match(t) ==
  LET ends(i) == {j \in (i + 1)..Len(t) :
                    t[j] = Newline /\ \A m \in (i + 1)..(j - 1) : IsSpace(t[m])}
      starts == {i \in 1..Len(t) : t[i] = Newline /\ ends(i) # {}}
  IN IF starts = {} THEN <<0, 0>>
     ELSE LET i == CHOOSE x \in starts : \A y \in starts : x <= y
              j == CHOOSE x \in ends(i) : \A y \in ends(i) : y <= x
          IN <<i, j>>

\* re.split(r"\n\s*\n", t)
RECURSIVE split_paragraphs(_)
split_paragraphs(t) ==
  LET m == blank_line_match(t)
  IN IF m[1] = 0 THEN <<t>>
     ELSE <<SubSeq(t, 1, m[1] - 1)>> \o split_paragraphs(SubSeq(t, m[2] + 1, Len(t)))

\* str.splitlines(): no line for the empty rest behind a last newline
RECURSIVE splitlines(_)
splitlines(t) ==
  IF t = <<>> THEN <<>>
  ELSE LET n == SkipForward(t, 1, Range(t) \ {Newline})
       IN <<SubSeq(t, 1, n - 1)>> \o splitlines(SubSeq(t, n + 1, Len(t)))

\* [ln.rstrip() for ln in lines if ln.strip()]
RECURSIVE nonblank_rstripped(_)
nonblank_rstripped(lines) ==
  IF lines = <<>> THEN <<>>
  ELSE IF Strip(lines[1]) = <<>> THEN nonblank_rstripped(Tail(lines))
  ELSE <<RStrip(lines[1])>> \o nonblank_rstripped(Tail(lines))

\* join_lines gluing a line to every line that begins with a letter, hyphen
\* or not
RECURSIVE join_lines_glued(_, _, _)
join_lines_glued(lines, k, buffer) ==
  IF k > Len(lines) THEN buffer
  ELSE LET nxt == LStrip(lines[k])
       IN IF nxt # <<>> /\ IsLetter(nxt[1])
          THEN join_lines_glued(lines, k + 1, buffer \o nxt)
          ELSE join_lines_glued(lines, k + 1, buffer \o <<" ">> \o nxt)

\* "for next_line in lines[1:]" from position k with the buffer so far
RECURSIVE join_lines(_, _, _)
join_lines(lines, k, buffer) ==
  IF k > Len(lines) THEN buffer
  ELSE LET nxt == LStrip(lines[k])
       IN IF /\ Len(buffer) >= 2
             /\ IsLetter(buffer[Len(buffer) - 1])
             /\ buffer[Len(buffer)] = Hyphen
             /\ nxt # <<>>
             /\ IsLetter(nxt[1])
          THEN join_lines(lines, k + 1, SubSeq(buffer, 1, Len(buffer) - 1) \o nxt)
          ELSE join_lines(lines, k + 1, buffer \o <<" ">> \o nxt)

\* re.sub(r"\s+", " ", t): of every run of whitespace the first character
\* is kept, as a space
collapse_whitespace(t) ==
  LET marked == [k \in 1..Len(t) |->
                   IF ~IsSpace(t[k]) THEN t[k]
                   ELSE IF k = 1 \/ ~IsSpace(t[k - 1]) THEN " "
                   ELSE ""]
  IN SelectSeq(marked, LAMBDA c : c # "")

(***************************************************************************)
(* textwrap.fill with the defaults of TextWrapper: replace_whitespace,     *)
(* drop_whitespace, break_on_hyphens, break_long_words.                    *)
(***************************************************************************)
textwrap_whitespace == {" ", Newline}
Digits == {"1"}
WordChars == Letters \cup Digits                       \* \w
word_punct == WordChars \cup {Period, "'", "\""}        \* [\w!"'&.,?]

\* the character at position k, "" outside the text
At(t, k) == IF k \in 1..Len(t) THEN t[k] ELSE ""

munge_whitespace(t) ==
  [k \in 1..Len(t) |-> IF t[k] \in textwrap_whitespace THEN " " ELSE t[k]]

\* (?=-{2,}\w) at position e
em_dash_ahead(t, e) ==
  LET r == SkipForward(t, e, {Hyphen})
  IN r - e >= 2 /\ At(t, r) \in WordChars

\* behind a hyphen, at position e: (?<=LL-) or (?<=L-L-), and (?=L-?L)
hyphen_break(t, e) ==
  /\ \/ IsLetter(At(t, e - 3)) /\ IsLetter(At(t, e - 2))
     \/ IsLetter(At(t, e - 4)) /\ At(t, e - 3) = Hyphen /\ IsLetter(At(t, e - 2))
  /\ IsLetter(At(t, e))
  /\ \/ IsLetter(At(t, e + 1))
     \/ At(t, e + 1) = Hyphen /\ IsLetter(At(t, e + 2))

\* the last position of the word chunk that starts at s: the lazy [^ws]+?
\* of length len, then the first of: a hyphen that may break, the end of the
\* word, an em-dash ahead
word_chunk_end(t, s) ==
  LET breaks_at(len) == At(t, s + len) = Hyphen /\ hyphen_break(t, s + len + 1)
      ends_at(len) ==
        \/ s + len > Len(t)
        \/ t[s + len] \in textwrap_whitespace
        \/ t[s + len - 1] \in word_punct /\ em_dash_ahead(t, s + len)
      stops_at(len) == breaks_at(len) \/ ends_at(len)
      len == CHOOSE n \in 1..(Len(t) - s + 1) :
               stops_at(n) /\ \A m \in 1..(n - 1) : ~stops_at(m)
  IN IF breaks_at(len) THEN s + len ELSE s + len - 1

\* wordsep_re.split(t) from position s, empty chunks left out
RECURSIVE split_chunks(_, _)
split_chunks(t, s) ==
  IF s > Len(t) THEN <<>>
  ELSE LET e == IF t[s] \in textwrap_whitespace
                THEN SkipForward(t, s, textwrap_whitespace) - 1
                ELSE IF At(t, s - 1) \in word_punct /\ em_dash_ahead(t, s)
                THEN SkipForward(t, s, {Hyphen}) - 1
                ELSE word_chunk_end(t, s)
       IN <<SubSeq(t, s, e)>> \o split_chunks(t, e + 1)

\* the number of leading chunks that fit in the room that is left
RECURSIVE fitting(_, _)
fitting(chunks, room) ==
  IF chunks = <<>> \/ Len(chunks[1]) > room THEN 0
  ELSE 1 + fitting(Tail(chunks), room - Len(chunks[1]))

RECURSIVE Concat(_)
Concat(ss) == IF ss = <<>> THEN <<>> ELSE ss[1] \o Concat(Tail(ss))

\* _handle_long_word: where the chunk is cut when space_left is left on the
\* line: behind its last hyphen in that space if text comes before it
long_word_cut(chunk, space_left) ==
  LET head == SubSeq(chunk, 1, space_left)
      hyphen == RFind(head, Hyphen)
  IN IF hyphen > 1 /\ \E k \in 1..(hyphen - 1) : chunk[k] # Hyphen
     THEN hyphen ELSE space_left

\* _wrap_chunks: the lines made of the chunks that are left
RECURSIVE wrap_chunks(_, _, _)
wrap_chunks(chunks, wrap_width, lines) ==
  IF chunks = <<>> THEN lines
  ELSE LET rest == IF Strip(chunks[1]) = <<>> /\ lines # <<>>
                   THEN Tail(chunks) ELSE chunks
           n == fitting(rest, wrap_width)
           fit == SubSeq(rest, 1, n)
           left == SubSeq(rest, n + 1, Len(rest))
           too_long == left # <<>> /\ Len(left[1]) > wrap_width
           cut == IF too_long
                  THEN long_word_cut(left[1], wrap_width - Len(Concat(fit)))
                  ELSE 0
           cur_line == IF too_long THEN Append(fit, SubSeq(left[1], 1, cut)) ELSE fit
           remaining == IF too_long
                        THEN <<SubSeq(left[1], cut + 1, Len(left[1]))>> \o Tail(left)
                        ELSE left
           kept == IF cur_line # <<>> /\ Strip(cur_line[Len(cur_line)]) = <<>>
                   THEN SubSeq(cur_line, 1, Len(cur_line) - 1) ELSE cur_line
       IN wrap_chunks(remaining, wrap_width,
                      IF kept # <<>> THEN Append(lines, Concat(kept)) ELSE lines)

\* sep.join(parts)
RECURSIVE Join(_, _)
Join(sep, parts) ==
  IF parts = <<>> THEN <<>>
  ELSE IF Len(parts) = 1 THEN parts[1]
  ELSE parts[1] \o sep \o Join(sep, Tail(parts))

textwrap_fill(t, wrap_width) ==
  Join(<<Newline>>, wrap_chunks(split_chunks(munge_whitespace(t), 1), wrap_width, <<>>))

\* one paragraph: None if it has no line, Some(wrapped) otherwise
reflow_paragraph(para, wrap_width) ==
  LET lines == nonblank_rstripped(splitlines(para))
  IN IF lines = <<>> THEN None
     ELSE Some(textwrap_fill(Strip(collapse_whitespace(join_lines(lines, 2, lines[1]))),
                             wrap_width))

RECURSIVE processed_paragraphs(_, _)
processed_paragraphs(paragraphs, wrap_width) ==
  IF paragraphs = <<>> THEN <<>>
  ELSE reflow_paragraph(paragraphs[1], wrap_width)
         \o processed_paragraphs(Tail(paragraphs), wrap_width)

dehyphenate_and_reflow(text, wrap_width) ==
  Join(<<Newline, Newline>>,
       processed_paragraphs(split_paragraphs(strip_newlines(normalize_unicode(text))),
                            wrap_width))
    \o <<Newline>>

(***************************************************************************)
(* merge_multiline_headers                                                 *)
(***************************************************************************)
header_texttypes == {"INTRO", "SUBHEADING"}

\* merge_header_run taking up one further fragment only
merge_header_run_one_fragment(bs, j, base_texttype, merged_text) ==
  IF j > Len(bs) \/ bs[j].texttype # base_texttype THEN <<merged_text, j>>
  ELSE <<merged_text \o <<" ">> \o Strip(bs[j].text), j + 1>>

\* the inner "while j < n and blocks[j].texttype is base_texttype" from
\* position j with the text merged so far: <<merged_text, j>>
RECURSIVE merge_header_run(_, _, _, _)
merge_header_run(bs, j, base_texttype, merged_text) ==
  IF j > Len(bs) \/ bs[j].texttype # base_texttype THEN <<merged_text, j>>
  ELSE LET next_text == Strip(bs[j].text)
       IN IF next_text = <<>>
          THEN merge_header_run(bs, j + 1, base_texttype, merged_text)
          ELSE IF EndsWith(merged_text, Hyphen) /\ IsAlpha(next_text[1])
          THEN merge_header_run(bs, j + 1, base_texttype,
                 SubSeq(merged_text, 1, Len(merged_text) - 1) \o next_text)
          ELSE merge_header_run(bs, j + 1, base_texttype,
                 merged_text \o <<" ">> \o next_text)

\* merge_headers_from numbering a merged header by its place in the new list
RECURSIVE merge_headers_from_renumbering(_, _, _)
merge_headers_from_renumbering(bs, i, merged) ==
  IF i > Len(bs) THEN merged
  ELSE LET current == bs[i]
       IN IF current.texttype \in header_texttypes
          THEN LET run == merge_header_run(bs, i + 1, current.texttype,
                                           Strip(current.text))
               IN merge_headers_from_renumbering(bs, run[2],
                    Append(merged, Block(current.texttype, run[1], current.page,
                                         current.column, Len(merged))))
          ELSE merge_headers_from_renumbering(bs, i + 1, Append(merged, current))

\* the outer "while i < n" from position i with the list built so far
RECURSIVE merge_headers_from(_, _, _)
merge_headers_from(bs, i, merged) ==
  IF i > Len(bs) THEN merged
  ELSE LET current == bs[i]
       IN IF current.texttype \in header_texttypes
          THEN LET run == merge_header_run(bs, i + 1, current.texttype,
                                           Strip(current.text))
               IN merge_headers_from(bs, run[2],
                    Append(merged, Block(current.texttype, run[1], current.page,
                                         current.column, current.order_index)))
          ELSE merge_headers_from(bs, i + 1, Append(merged, current))

merge_multiline_headers(bs) ==
  IF bs = <<>> THEN bs ELSE merge_headers_from(bs, 1, <<>>)

(***************************************************************************)
(* render_article_to_text: the plain text and the ArticleText record.      *)
(*   st is the tuple of locals of the block loop; a line is a text, the    *)
(*   blank line is <<>>; ParagraphText is [header, text].                  *)
(***************************************************************************)
\* any(b.texttype is TextType.INTRO for b in blocks)
HasIntro(bs) == \E k \in 1..Len(bs) : bs[k].texttype = "INTRO"

\* sorted(blocks, key=lambda b: b.order_index)
sorted_by_order_index(bs) ==
  Values(SortKeyed([k \in 1..Len(bs) |-> [k |-> <<bs[k].order_index, 0>>, v |-> bs[k]]]))

\* "if lines and lines[-1] != '': lines.append('')"
with_blank(lines) ==
  IF lines # <<>> /\ lines[Len(lines)] # <<>> THEN Append(lines, <<>>) ELSE lines

ParagraphText(text, header) == [header |-> header, text |-> text]

\* render_block without the blank line in front of a sub-heading
render_block_no_blank_before(st, b, last, intro_present) ==
  LET txt == Strip(b.text)
      opened == intro_present /\ ~st.intro_done
      lines1 == IF opened THEN with_blank(st.lines) ELSE st.lines
      lines2 == IF b.texttype = "SUBHEADING"
                THEN lines1 \o <<txt, <<>>>>
                ELSE Append(lines1, txt)
      raw == st.raw_paragraph_text \o txt \o <<Newline>>
  IN IF txt = <<>> THEN st
     ELSE IF b.texttype = "INTRO"
     THEN [st EXCEPT !.lines = Append(st.lines, txt), !.intro_text = Some(txt)]
     ELSE IF b.texttype = "PARAGRAPH"
     THEN [st EXCEPT !.lines = lines2, !.intro_done = st.intro_done \/ opened,
                     !.raw_paragraph_text = raw,
                     !.paragraph_text_list =
                        IF b = last
                        THEN Append(st.paragraph_text_list,
                                    ParagraphText(raw, st.paragraph_header))
                        ELSE st.paragraph_text_list]
     ELSE IF b.texttype = "SUBHEADING"
     THEN IF IsNone(st.first_paragraph)
          THEN [st EXCEPT !.lines = lines2, !.intro_done = st.intro_done \/ opened,
                          !.first_paragraph = Some(st.raw_paragraph_text),
                          !.raw_paragraph_text = <<>>,
                          !.paragraph_header = txt]
          ELSE [st EXCEPT !.lines = lines2, !.intro_done = st.intro_done \/ opened,
                          !.paragraph_text_list =
                             Append(st.paragraph_text_list,
                                    ParagraphText(st.raw_paragraph_text,
                                                  st.paragraph_header)),
                          !.paragraph_header = txt,
                          !.raw_paragraph_text = <<>>]
     ELSE [st EXCEPT !.lines = lines2, !.intro_done = st.intro_done \/ opened]

\* one iteration of "for b in blocks": lines 821-874; last is blocks[-1]
render_block(st, b, last, intro_present) ==
  LET txt == Strip(b.text)
      opened == intro_present /\ ~st.intro_done
      lines1 == IF opened THEN with_blank(st.lines) ELSE st.lines
      lines2 == IF b.texttype = "SUBHEADING"
                THEN with_blank(lines1) \o <<txt, <<>>>>
                ELSE Append(lines1, txt)
      raw == st.raw_paragraph_text \o txt \o <<Newline>>
  IN IF txt = <<>> THEN st
     ELSE IF b.texttype = "INTRO"
     THEN [st EXCEPT !.lines = Append(st.lines, txt), !.intro_text = Some(txt)]
     ELSE IF b.texttype = "PARAGRAPH"
     THEN [st EXCEPT !.lines = lines2, !.intro_done = st.intro_done \/ opened,
                     !.raw_paragraph_text = raw,
                     !.paragraph_text_list =
                        IF b = last
                        THEN Append(st.paragraph_text_list,
                                    ParagraphText(raw, st.paragraph_header))
                        ELSE st.paragraph_text_list]
     ELSE IF b.texttype = "SUBHEADING"
     THEN IF IsNone(st.first_paragraph)
          THEN [st EXCEPT !.lines = lines2, !.intro_done = st.intro_done \/ opened,
                          !.first_paragraph = Some(st.raw_paragraph_text),
                          !.raw_paragraph_text = <<>>,
                          !.paragraph_header = txt]
          ELSE [st EXCEPT !.lines = lines2, !.intro_done = st.intro_done \/ opened,
                          !.paragraph_text_list =
                             Append(st.paragraph_text_list,
                                    ParagraphText(st.raw_paragraph_text,
                                                  st.paragraph_header)),
                          !.paragraph_header = txt,
                          !.raw_paragraph_text = <<>>]
     ELSE [st EXCEPT !.lines = lines2, !.intro_done = st.intro_done \/ opened]

\* "for b in blocks" from position k
RECURSIVE render_blocks(_, _, _, _)
render_blocks(bs, k, intro_present, st) ==
  IF k > Len(bs) THEN st
  ELSE render_blocks(bs, k + 1, intro_present,
                     render_block(st, bs[k], bs[Len(bs)], intro_present))

\* "while lines and lines[-1] == '': lines.pop()"
RECURSIVE without_trailing_blanks(_)
without_trailing_blanks(lines) ==
  IF lines # <<>> /\ lines[Len(lines)] = <<>>
  THEN without_trailing_blanks(SubSeq(lines, 1, Len(lines) - 1))
  ELSE lines

\* [text, article_text]: the returned plain text and article.article_text
render_article_to_text(blocks_in) ==
  LET bs == sorted_by_order_index(blocks_in)
      st == render_blocks(bs, 1, HasIntro(bs),
              [lines |-> <<>>, intro_done |-> FALSE, intro_text |-> None,
               first_paragraph |-> None, paragraph_header |-> <<>>,
               raw_paragraph_text |-> <<>>, paragraph_text_list |-> <<>>])
  IN [text |-> RStrip(Join(<<Newline>>, without_trailing_blanks(st.lines)))
                 \o <<Newline>>,
      article_text |-> [intro_text |-> st.intro_text,
                        first_paragraph |-> st.first_paragraph,
                        paragraph_texts |-> st.paragraph_text_list]]

(***************************************************************************)
(* compute_pdf_index_for_article: [raised, value, printed].                *)
(*   raised: a ValueError leaves the function; printed: what it printed.   *)
(***************************************************************************)
compute_pdf_index_for_article(magazine, article) ==
  IF IsNone(article.page)
  THEN [raised |-> FALSE, value |-> -1, printed |-> <<"no_page_number">>]
  ELSE IF IsNone(magazine.pdf_index_offset)
  THEN [raised |-> TRUE, value |-> 0, printed |-> <<>>]
  ELSE LET pdf_index == Val(article.page) + Val(magazine.pdf_index_offset)
       IN IF pdf_index < 0
          THEN [raised |-> TRUE, value |-> pdf_index, printed |-> <<>>]
          ELSE [raised |-> FALSE, value |-> pdf_index, printed |-> <<>>]

(***************************************************************************)
(* The running program.                                                    *)
(***************************************************************************)
magazine == pdf_files[pdf_i]
doc == magazine.doc
article == magazine.articles[art_i]
this == <<pdf_i, art_i>>

Articles == {<<m, a>> : m \in 1..MaxPdfs, a \in 1..MaxArticles}
NoFields == [start_page_pdf |-> None, end_page_pdf |-> None, end_page |-> None]

locals == <<start_index, page_index, blocks, order_index, body_seen,
            end_reached, last_page_with_content, ret, reads, block_lines>>

\* main, "for pdf_path in pdf_files", and process_magazine_pdf up to its
\* article loop
main_next_pdf ==
  /\ pc = "main"
  /\ pdf_i <= Len(pdf_files)
  /\ IF magazine.articles = <<>>
     THEN /\ pdf_i' = pdf_i + 1
          /\ UNCHANGED <<pc, art_i>>
     ELSE /\ pc' = "articles"
          /\ art_i' = 1
          /\ UNCHANGED pdf_i
  /\ UNCHANGED <<pdf_files, fields, exported, diag, fn, arg, out>>
  /\ UNCHANGED locals

\* main after its loop: the status sheet is written
main_finish ==
  /\ pc = "main"
  /\ pdf_i > Len(pdf_files)
  /\ pc' = "done"
  /\ UNCHANGED <<pdf_files, pdf_i, art_i, fields, exported, diag, fn, arg, out>>
  /\ UNCHANGED locals

\* process_magazine_pdf calls extract_article_text_plain, which calls
\* extract_article_blocks: the start index and the fresh locals.  A ValueError
\* is caught nowhere up to main: the program ends.
extract_article_blocks_start ==
  /\ pc = "articles"
  /\ art_i <= Len(magazine.articles)
  /\ LET r == compute_pdf_index_for_article(magazine, article)
     IN /\ diag' = diag \o [k \in 1..Len(r.printed) |-> <<r.printed[k], this>>]
        /\ IF r.raised
           THEN /\ pc' = "crashed"
                /\ UNCHANGED locals
           ELSE /\ pc' = "scanning"
                /\ start_index' = r.value
                /\ page_index' = r.value
                /\ blocks' = <<>>
                /\ order_index' = 0
                /\ body_seen' = FALSE
                /\ end_reached' = FALSE
                /\ last_page_with_content' = None
                /\ ret' = None
                /\ reads' = <<>>
                /\ block_lines' = <<>>
  /\ UNCHANGED <<pdf_files, pdf_i, art_i, fields, exported, fn, arg, out>>

\* one iteration of the page loop of extract_article_blocks
extract_article_blocks_page ==
  /\ pc = "scanning"
  /\ ~end_reached
  /\ page_index < Len(doc)
  /\ LET st == scan_page(load_page(doc, page_index), page_index,
                 [blocks |-> blocks, order_index |-> order_index,
                  body_seen |-> body_seen, end_reached |-> end_reached,
                  last_page_with_content |-> last_page_with_content,
                  block_lines |-> block_lines])
     IN /\ blocks' = st.blocks
        /\ order_index' = st.order_index
        /\ body_seen' = st.body_seen
        /\ end_reached' = st.end_reached
        /\ last_page_with_content' = st.last_page_with_content
        /\ block_lines' = st.block_lines
        /\ page_index' = IF st.end_reached THEN page_index ELSE page_index + 1
  /\ reads' = Append(reads, page_index)
  /\ UNCHANGED <<pdf_files, pdf_i, art_i, pc, start_index, ret, fields,
                 exported, diag, fn, arg, out>>

\* extract_article_blocks_return warning only when nothing was collected
extract_article_blocks_return_quiet ==
  /\ pc = "scanning"
  /\ end_reached \/ page_index >= Len(doc)
  /\ last_page_with_content' =
       IF IsNone(last_page_with_content) THEN Some(start_index)
       ELSE last_page_with_content
  /\ diag' = IF ~end_reached /\ blocks = <<>>
             THEN Append(diag, <<"no_end_marker", this>>) ELSE diag
  /\ ret' = Some([blocks |-> blocks, end_page_pdf |-> Val(last_page_with_content')])
  /\ pc' = "extracted"
  /\ UNCHANGED <<pdf_files, pdf_i, art_i, start_index, page_index, blocks,
                 order_index, body_seen, end_reached, fields, exported, reads,
                 block_lines, fn, arg, out>>

\* extract_article_blocks leaving the page loop at any page boundary
extract_article_blocks_return_at_any_page ==
  /\ pc = "scanning"
  /\ last_page_with_content' =
       IF IsNone(last_page_with_content) THEN Some(start_index)
       ELSE last_page_with_content
  /\ diag' = IF ~end_reached THEN Append(diag, <<"no_end_marker", this>>) ELSE diag
  /\ ret' = Some([blocks |-> blocks, end_page_pdf |-> Val(last_page_with_content')])
  /\ pc' = "extracted"
  /\ UNCHANGED <<pdf_files, pdf_i, art_i, start_index, page_index, blocks,
                 order_index, body_seen, end_reached, fields, exported, reads,
                 block_lines, fn, arg, out>>

\* extract_article_blocks after the page loop
extract_article_blocks_return ==
  /\ pc = "scanning"
  /\ end_reached \/ page_index >= Len(doc)
  /\ last_page_with_content' =
       IF IsNone(last_page_with_content) THEN Some(start_index)
       ELSE last_page_with_content
  /\ diag' = IF ~end_reached THEN Append(diag, <<"no_end_marker", this>>) ELSE diag
  /\ ret' = Some([blocks |-> blocks, end_page_pdf |-> Val(last_page_with_content')])
  /\ pc' = "extracted"
  /\ UNCHANGED <<pdf_files, pdf_i, art_i, start_index, page_index, blocks,
                 order_index, body_seen, end_reached, fields, exported, reads,
                 block_lines, fn, arg, out>>

\* extract_article_text_plain after extract_article_blocks returned: the
\* page range is stored on the article
extract_article_text_plain_finish ==
  /\ pc = "extracted"
  /\ LET r == compute_pdf_index_for_article(magazine, article)
         end_page_pdf == Val(ret).end_page_pdf
         end_page_printed ==
           IF ~IsNone(magazine.pdf_index_offset)
           THEN Some(end_page_pdf - Val(magazine.pdf_index_offset))
           ELSE None
     IN /\ diag' = diag \o [k \in 1..Len(r.printed) |-> <<r.printed[k], this>>]
        /\ IF r.raised
           THEN /\ pc' = "crashed"
                /\ UNCHANGED fields
           ELSE /\ pc' = "export"
                /\ fields' = [fields EXCEPT ![this] =
                     [start_page_pdf |-> Some(r.value),
                      end_page_pdf |-> Some(end_page_pdf),
                      end_page |-> end_page_printed]]
  /\ UNCHANGED <<pdf_files, pdf_i, art_i, exported, fn, arg, out>>
  /\ UNCHANGED locals

\* process_magazine_pdf after extract_article_text_plain returned: the TXT
\* and JSON output of the article
process_magazine_pdf_export ==
  /\ pc = "export"
  /\ exported' = exported \cup {this}
  /\ art_i' = art_i + 1
  /\ pc' = "articles"
  /\ UNCHANGED <<pdf_files, pdf_i, fields, diag, fn, arg, out>>
  /\ UNCHANGED locals

\* process_magazine_pdf after its article loop
process_magazine_pdf_return ==
  /\ pc = "articles"
  /\ art_i > Len(magazine.articles)
  /\ pdf_i' = pdf_i + 1
  /\ pc' = "main"
  /\ UNCHANGED <<pdf_files, art_i, fields, exported, diag, fn, arg, out>>
  /\ UNCHANGED locals

Next ==
  \/ main_next_pdf
  \/ main_finish
  \/ extract_article_blocks_start
  \/ extract_article_blocks_page
  \/ extract_article_blocks_return
  \/ extract_article_text_plain_finish
  \/ process_magazine_pdf_export
  \/ process_magazine_pdf_return

(***************************************************************************)
(* Inputs.                                                                 *)
(***************************************************************************)
T_plain == <<"a">>
T_end == <<"a", ".", " ", "*">>
T_list == <<"*", " ", "a">>
T_quote_end == <<"a", ".", "'", "*", "a">>

body_line == Line(T_plain, 0, 100, 20, 90, FALSE, TRUE, FALSE)
bold_line == Line(T_plain, 0, 100, 10, 90, TRUE, FALSE, TRUE)
end_line == Line(T_end, 200, 300, 10, 90, FALSE, TRUE, FALSE)
title_line == Line(T_plain, 0, 300, 0, 240, TRUE, FALSE, TRUE)
list_line == Line(T_list, 200, 300, 30, 90, TRUE, FALSE, FALSE)
bold_end_line == Line(T_quote_end, 0, 100, 30, 90, TRUE, FALSE, TRUE)

LineCatalogue ==
  {body_line, bold_line, end_line, title_line, list_line, bold_end_line}

\* documents of exactly p pages with at most n lines in all
RECURSIVE DocsWith(_, _)
DocsWith(p, n) ==
  IF p = 0 THEN {<<>>}
  ELSE UNION {{<<pg>> \o rest : pg \in [1..k -> LineCatalogue],
                               rest \in DocsWith(p - 1, n - k)} : k \in 0..n}

Docs == UNION {DocsWith(p, MaxLines) : p \in 1..MaxPages}

PrintedPages == {None} \cup {Some(p) : p \in 1..(MaxPages + 1)}
Offsets == {None, Some(-1), Some(-2)}

InitProgram ==
  /\ pdf_i = 1
  /\ art_i = 1
  /\ pc = "main"
  /\ start_index = 0
  /\ page_index = 0
  /\ blocks = <<>>
  /\ order_index = 0
  /\ body_seen = FALSE
  /\ end_reached = FALSE
  /\ last_page_with_content = None
  /\ ret = None
  /\ fields = [a \in Articles |-> NoFields]
  /\ exported = {}
  /\ diag = <<>>
  /\ reads = <<>>
  /\ block_lines = <<>>
  /\ fn = "none"
  /\ arg = <<>>
  /\ out = <<>>

\* one magazine with one article
Init ==
  /\ pdf_files \in {<<[doc |-> d, pdf_index_offset |-> o,
                       articles |-> <<[page |-> pg]>>]>> :
                      d \in Docs, o \in Offsets, pg \in PrintedPages}
  /\ InitProgram

Spec == Init /\ [][Next]_vars

\* The program is sequential code that runs on: the page loop makes its next
\* iteration when there is one to make, and the function returns when the
\* loop is left.  That is weak fairness of the two steps; for the page step
\* it is written with the condition that enables the step,
\* ENABLED <<extract_article_blocks_page>>_vars, as a state predicate.  The
\* documents are made of whole pages.
FairPages ==
  {<<>>, <<title_line>>, <<bold_line>>, <<list_line>>, <<bold_line, body_line>>,
   <<body_line, end_line>>}

page_step_enabled == pc = "scanning" /\ ~end_reached /\ page_index < Len(doc)

InitFair ==
  /\ pdf_files \in {<<[doc |-> d, pdf_index_offset |-> o,
                       articles |-> <<[page |-> pg]>>]>> :
                      d \in UNION {[1..n -> FairPages] : n \in 1..MaxPages},
                      o \in Offsets, pg \in PrintedPages}
  /\ InitProgram

SpecFair ==
  /\ InitFair
  /\ [][Next]_vars
  /\ WF_vars(extract_article_blocks_return)
  /\ ([]<>(~page_step_enabled) \/ []<><<extract_article_blocks_page>>_vars)

\* a batch of magazines over two small documents
two_page_doc == <<<<bold_line, body_line>>, <<body_line, end_line>>>>
one_page_doc == <<<<title_line, list_line>>>>
BatchDocs == {two_page_doc, one_page_doc}
BatchPages == {None, Some(1), Some(2)}

BatchMagazines ==
  {[doc |-> d, pdf_index_offset |-> o, articles |-> as] :
     d \in BatchDocs, o \in Offsets,
     as \in SeqsUpTo({[page |-> pg] : pg \in BatchPages}, MaxArticles)}

InitBatch ==
  /\ pdf_files \in UNION {[1..n -> BatchMagazines] : n \in 1..MaxPdfs}
  /\ InitProgram

SpecBatch == InitBatch /\ [][Next]_vars

(***************************************************************************)
(* The classifier and the end-marker detector applied on their own.        *)
(***************************************************************************)
FontSizes == {80, 85, 90, 95, 100}
Alphabet == {"a", Period, " ", Bullet, "'", "\""}
Texts == SeqsUpTo(Alphabet, MaxTextLen)

ClassifierLines ==
  {[Line(t, x, x + 100, 10, size, u, m, b) EXCEPT !.column_index = c] :
     t \in {T_plain, T_end}, x \in {0, 200}, size \in FontSizes,
     u \in BOOLEAN, m \in BOOLEAN, b \in BOOLEAN, c \in {None, Some(1)}}

InitIdle ==
  /\ pdf_files = <<>>
  /\ pdf_i = 1
  /\ art_i = 1
  /\ start_index = 0
  /\ page_index = 0
  /\ blocks = <<>>
  /\ order_index = 0
  /\ body_seen = FALSE
  /\ end_reached = FALSE
  /\ last_page_with_content = None
  /\ ret = None
  /\ fields = [a \in Articles |-> NoFields]
  /\ exported = {}
  /\ diag = <<>>
  /\ reads = <<>>
  /\ block_lines = <<>>

\* lines of one page for assign_columns: left edges that lie within and
\* beyond the column gap of each other, in four clusters, full-width lines
\* and, at both ends, a short one
ColumnLefts == {0, 50, 100, 200, 300}
ColumnLines ==
  {Line(T_plain, x, x + 100, 10, 90, FALSE, TRUE, FALSE) : x \in ColumnLefts}
    \cup {Line(T_plain, x, x + 20, 10, 90, FALSE, TRUE, FALSE) : x \in {0, 300}}

\* Block lists for the stages that work on a block list alone: the kinds an
\* ArticleBlock can have after extraction, order_index rising along the
\* list, two blocks to a page and one to a column.
BlockKinds == {"INTRO", "SUBHEADING", "PARAGRAPH"}

BlockList(kinds, txts) ==
  [k \in 1..Len(kinds) |->
     Block(kinds[k], txts[k], (k - 1) \div 2, (k - 1) % 2, k - 1)]

\* header fragments: empty, blank, padded, ending in a hyphen and in an en
\* dash, beginning with a digit
HeaderTexts ==
  {<<>>, <<" ">>, <<"a", Hyphen>>, <<"a", EnDash>>, <<"1", "b">>, <<" ", "b", " ">>}

\* block texts around a word break: "woord afgebro-" and "ken verder.", a
\* hyphen after a letter, an en dash with whitespace around it, a digit in
\* front of the first letter
T_afgebro == <<"b", " ", "a", Hyphen>>
T_ken_verder == <<"a", " ", "b", Period>>

HyphenTexts ==
  {<<"a", Hyphen>>, <<"a", " ", EnDash, " ">>, <<"1", "b">>, T_afgebro, T_ken_verder}

\* texts for the reflow stage: a short text, on its own or behind a word
\* that leaves two columns (with a space: one) of the first line free
ReflowAlphabet == {"a", Hyphen, " ", Newline, SoftHyphen, NoBreakSpace}
Filler == [k \in 1..(default_width - 2) |-> "a"]
ReflowTexts ==
  {head \o t : head \in {<<>>, Filler, Filler \o <<" ">>},
               t \in SeqsUpTo(ReflowAlphabet, MaxReflowLen)}

\* block streams as the pipeline hands them to the renderer: intro blocks
\* come first and a sub-heading only after a paragraph; the texts tell the
\* kinds apart
StreamShape(kinds) ==
  \A k \in 1..Len(kinds) :
    /\ kinds[k] = "INTRO" => \A m \in 1..(k - 1) : kinds[m] = "INTRO"
    /\ kinds[k] = "SUBHEADING" => \E m \in 1..(k - 1) : kinds[m] = "PARAGRAPH"

StreamTexts(kind) ==
  IF kind = "PARAGRAPH" THEN {<<"a">>, <<"a", " ", "a">>}
  ELSE IF kind = "SUBHEADING" THEN {<<"b">>, <<"b", " ", "b">>}
  ELSE {<<"a", Period>>}

\* block texts for the two block-list stages run one after the other
PipelineTexts == {<<"a", Hyphen>>, <<" ">>, T_ken_verder}

\* A function that is applied again to its own result keeps the results of
\* its successive applications in out: <<f(arg), f(f(arg))>>.
last_result == IF out = <<>> THEN arg ELSE out[Len(out)]

InitPure ==
  /\ InitIdle
  /\ pc = "call"
  /\ out = <<>>
  /\ \/ /\ fn = "determine_line_texttype"
        /\ arg \in {[line |-> ln, body_seen |-> seen] :
                      ln \in ClassifierLines, seen \in BOOLEAN}
     \/ /\ fn = "check_end_marker"
        /\ arg \in {[line |-> Line(t, 0, 100, 10, 90, FALSE, TRUE, FALSE)] :
                      t \in Texts}
     \/ /\ fn = "assign_columns"
        /\ arg \in SeqsUpTo(ColumnLines, MaxColumnLines)
     \/ /\ fn = "scan_page"
        /\ arg \in SeqsUpTo(ColumnLines, MaxColumnLines)
     \/ /\ fn = "merge_multiline_headers"
        /\ \E n \in 0..MaxBlocks :
             \E kinds \in [1..n -> BlockKinds], txts \in [1..n -> HeaderTexts] :
               arg = BlockList(kinds, txts)
     \/ /\ fn = "fix_hyphenation_across_block_breaks"
        /\ \E n \in 0..MaxBlocks :
             \E kinds \in [1..n -> BlockKinds], txts \in [1..n -> HyphenTexts] :
               arg = BlockList(kinds, txts)
     \/ /\ fn = "_dehyphenate_and_reflow"
        /\ arg \in ReflowTexts
     \/ /\ fn = "merge_then_fix"
        /\ \E n \in 0..MaxPipelineBlocks :
             \E kinds \in [1..n -> BlockKinds], txts \in [1..n -> PipelineTexts] :
               arg = BlockList(kinds, txts)
     \/ /\ fn = "render_article_to_text"
        /\ \E n \in 0..MaxStream :
             \E kinds \in [1..n -> BlockKinds] :
               /\ StreamShape(kinds)
               /\ \E txts \in [1..n -> UNION {StreamTexts(kd) : kd \in BlockKinds}] :
                    /\ \A k \in 1..n : txts[k] \in StreamTexts(kinds[k])
                    /\ arg = BlockList(kinds, txts)

program == <<pdf_files, pdf_i, art_i, start_index, page_index, blocks,
             order_index, body_seen, end_reached, last_page_with_content, ret,
             fields, exported, diag, reads, block_lines>>

apply_determine_line_texttype ==
  /\ pc = "call"
  /\ fn = "determine_line_texttype"
  /\ out' = determine_line_texttype(arg.line, arg.body_seen)
  /\ pc' = "returned"
  /\ UNCHANGED <<fn, arg>>
  /\ UNCHANGED program

apply_check_end_marker ==
  /\ pc = "call"
  /\ fn = "check_end_marker"
  /\ out' = check_end_marker(arg.line)
  /\ pc' = "returned"
  /\ UNCHANGED <<fn, arg>>
  /\ UNCHANGED program

\* assign_columns(lines), and once more on the same line objects
apply_assign_columns ==
  /\ pc \in {"call", "returned"}
  /\ fn = "assign_columns"
  /\ Len(out) < 2
  /\ out' = Append(out, assign_columns(last_result))
  /\ pc' = "returned"
  /\ UNCHANGED <<fn, arg>>
  /\ UNCHANGED program

\* merge_multiline_headers(blocks), and once more on the list it returned
apply_merge_multiline_headers ==
  /\ pc \in {"call", "returned"}
  /\ fn = "merge_multiline_headers"
  /\ Len(out) < 2
  /\ out' = Append(out, merge_multiline_headers(last_result))
  /\ pc' = "returned"
  /\ UNCHANGED <<fn, arg>>
  /\ UNCHANGED program

\* fix_hyphenation_across_block_breaks(blocks), and once more on the list
\* it returned
apply_fix_hyphenation_across_block_breaks ==
  /\ pc \in {"call", "returned"}
  /\ fn = "fix_hyphenation_across_block_breaks"
  /\ Len(out) < 2
  /\ out' = Append(out, fix_hyphenation_across_block_breaks(last_result))
  /\ pc' = "returned"
  /\ UNCHANGED <<fn, arg>>
  /\ UNCHANGED program

\* _dehyphenate_and_reflow(text) with the default width, and once more on
\* the text it returned
apply_dehyphenate_and_reflow ==
  /\ pc \in {"call", "returned"}
  /\ fn = "_dehyphenate_and_reflow"
  /\ Len(out) < 2
  /\ out' = Append(out, dehyphenate_and_reflow(last_result, default_width))
  /\ pc' = "returned"
  /\ UNCHANGED <<fn, arg>>
  /\ UNCHANGED program

\* render_article_to_text(article, blocks)
apply_render_article_to_text ==
  /\ pc = "call"
  /\ fn = "render_article_to_text"
  /\ out' = <<render_article_to_text(arg)>>
  /\ pc' = "returned"
  /\ UNCHANGED <<fn, arg>>
  /\ UNCHANGED program

\* steps 2 and 2b of extract_article_text_plain: merge_multiline_headers,
\* then fix_hyphenation_across_block_breaks on the list it returned
apply_merge_then_fix ==
  /\ pc \in {"call", "returned"}
  /\ fn = "merge_then_fix"
  /\ Len(out) < 2
  /\ out' = IF out = <<>> THEN <<merge_multiline_headers(arg)>>
            ELSE Append(out, fix_hyphenation_across_block_breaks(out[1]))
  /\ pc' = "returned"
  /\ UNCHANGED <<fn, arg>>
  /\ UNCHANGED program

\* one pass of the page loop of extract_article_blocks over the lines of a
\* page, from fresh locals: the blocks and the line each was appended for
fresh_locals ==
  [blocks |-> <<>>, order_index |-> 0, body_seen |-> FALSE,
   end_reached |-> FALSE, last_page_with_content |-> None, block_lines |-> <<>>]

apply_scan_page ==
  /\ pc = "call"
  /\ fn = "scan_page"
  /\ out' = <<scan_page(arg, 0, fresh_locals)>>
  /\ pc' = "returned"
  /\ UNCHANGED <<fn, arg>>
  /\ UNCHANGED program

NextPure ==
  \/ apply_determine_line_texttype
  \/ apply_check_end_marker
  \/ apply_assign_columns
  \/ apply_merge_multiline_headers
  \/ apply_fix_hyphenation_across_block_breaks
  \/ apply_dehyphenate_and_reflow
  \/ apply_render_article_to_text
  \/ apply_scan_page
  \/ apply_merge_then_fix

SpecPure == InitPure /\ [][NextPure]_vars

(***************************************************************************)
(* Two articles of one document extracted side by side: an orchestrator    *)
(* outside the program runs extract_article_text_plain once per article    *)
(* and the page-by-page steps of the two calls interleave.  out[e] holds   *)
(* what call e keeps in its own frame: its position, the start index, the  *)
(* page index, the locals of the page loop and what the loop returned.     *)
(***************************************************************************)
MaxConcurrentPages == 2   \* pages of the document the two calls read

Extractions == {1, 2}

PageCatalogue ==
  {<<>>, <<bold_line>>, <<bold_line, body_line>>, <<body_line, end_line>>}

ConcurrentDocs == [1..MaxConcurrentPages -> PageCatalogue]

\* the locals call e works with
locals_with_shared_flag(e) ==
  [out[e].st EXCEPT !.body_seen = \E x \in Extractions : out[x].st.body_seen]

locals_of(e) == out[e].st

ConcurrentPages == {None} \cup {Some(p) : p \in 1..(MaxConcurrentPages + 1)}

InitConcurrent ==
  /\ pdf_i = 1
  /\ art_i = 1
  /\ start_index = 0
  /\ page_index = 0
  /\ blocks = <<>>
  /\ order_index = 0
  /\ body_seen = FALSE
  /\ end_reached = FALSE
  /\ last_page_with_content = None
  /\ ret = None
  /\ fields = [a \in Articles |-> NoFields]
  /\ exported = {}
  /\ diag = <<>>
  /\ reads = <<>>
  /\ block_lines = <<>>
  /\ pc = "concurrent"
  /\ fn = "extract_article_text_plain"
  /\ arg = <<>>
  /\ \E d \in ConcurrentDocs, o \in {Some(-1), Some(-2)} :
       \E p1, p2 \in ConcurrentPages :
         pdf_files = <<[doc |-> d, pdf_index_offset |-> o,
                        articles |-> <<[page |-> p1], [page |-> p2]>>]>>
  /\ out = [e \in Extractions |->
              [pc |-> "start", start_index |-> 0, page_index |-> 0,
               st |-> fresh_locals, ret |-> None]]
\* what the two calls do not touch
frame_concurrent ==
  <<pdf_files, pdf_i, art_i, pc, start_index, page_index, blocks, order_index,
    body_seen, end_reached, last_page_with_content, ret, exported, reads,
    block_lines, fn, arg>>

\* call e enters extract_article_blocks
concurrent_extract_article_blocks_start ==
  \E e \in Extractions :
    /\ pc = "concurrent"
    /\ out[e].pc = "start"
    /\ LET r == compute_pdf_index_for_article(magazine, magazine.articles[e])
       IN /\ diag' = diag \o [k \in 1..Len(r.printed) |-> <<r.printed[k], <<1, e>>>>]
          /\ out' = [out EXCEPT ![e] =
               IF r.raised THEN [@ EXCEPT !.pc = "crashed"]
               ELSE [@ EXCEPT !.pc = "scanning", !.start_index = r.value,
                                !.page_index = r.value, !.st = fresh_locals]]
    /\ UNCHANGED fields
    /\ UNCHANGED frame_concurrent

\* call e makes one iteration of its page loop
concurrent_extract_article_blocks_page ==
  \E e \in Extractions :
    /\ pc = "concurrent"
    /\ out[e].pc = "scanning"
    /\ ~out[e].st.end_reached
    /\ out[e].page_index < Len(doc)
    /\ LET st == scan_page(load_page(doc, out[e].page_index), out[e].page_index,
                           locals_of(e))
       IN out' = [out EXCEPT ![e] =
            [@ EXCEPT !.st = st,
                      !.page_index = IF st.end_reached THEN @ ELSE @ + 1]]
    /\ UNCHANGED <<fields, diag>>
    /\ UNCHANGED frame_concurrent

\* call e leaves extract_article_blocks
concurrent_extract_article_blocks_return ==
  \E e \in Extractions :
    /\ pc = "concurrent"
    /\ out[e].pc = "scanning"
    /\ out[e].st.end_reached \/ out[e].page_index >= Len(doc)
    /\ LET last == IF IsNone(out[e].st.last_page_with_content)
                   THEN out[e].start_index
                   ELSE Val(out[e].st.last_page_with_content)
       IN out' = [out EXCEPT ![e] =
            [@ EXCEPT !.pc = "extracted",
                      !.st.last_page_with_content = Some(last),
                      !.ret = Some([blocks |-> out[e].st.blocks,
                                    end_page_pdf |-> last])]]
    /\ diag' = IF ~out[e].st.end_reached
               THEN Append(diag, <<"no_end_marker", <<1, e>>>>) ELSE diag
    /\ UNCHANGED fields
    /\ UNCHANGED frame_concurrent

\* call e stores the page range on its article
concurrent_extract_article_text_plain_finish ==
  \E e \in Extractions :
    /\ pc = "concurrent"
    /\ out[e].pc = "extracted"
    /\ LET r == compute_pdf_index_for_article(magazine, magazine.articles[e])
           end_page_pdf == Val(out[e].ret).end_page_pdf
           end_page_printed ==
             IF ~IsNone(magazine.pdf_index_offset)
             THEN Some(end_page_pdf - Val(magazine.pdf_index_offset))
             ELSE None
       IN /\ diag' = diag \o [k \in 1..Len(r.printed) |-> <<r.printed[k], <<1, e>>>>]
          /\ out' = [out EXCEPT ![e].pc = "done"]
          /\ fields' = [fields EXCEPT ![<<1, e>>] =
               [start_page_pdf |-> Some(r.value),
                end_page_pdf |-> Some(end_page_pdf),
                end_page |-> end_page_printed]]
    /\ UNCHANGED frame_concurrent

NextConcurrent ==
  \/ concurrent_extract_article_blocks_start
  \/ concurrent_extract_article_blocks_page
  \/ concurrent_extract_article_blocks_return
  \/ concurrent_extract_article_text_plain_finish

SpecConcurrent == InitConcurrent /\ [][NextConcurrent]_vars

(***************************************************************************)
(* Properties.                                                             *)
(***************************************************************************)
HasKind(bs, kind) == \E k \in 1..Len(bs) : bs[k].texttype = kind

Dense(bs) == \A k \in 1..Len(bs) : bs[k].order_index = k - 1

\* the pages of which the block list holds at least one block
PagesWithBlocks(bs) == {bs[k].page : k \in 1..Len(bs)}

\* C1: in the block list being built and in the block stream returned by
\* extract_article_blocks the k-th block has order_index k (0, 1, 2, ...):
\* no gap and no repeat, and the counter is the number of blocks.
C1_OrderIndexDense ==
  /\ Dense(blocks)
  /\ order_index = Len(blocks)
  /\ ret # None => Dense(Val(ret).blocks)

\* C1 witness: a returned stream of two blocks or more that ends at an end
\* marker after a page that gave no block.
C1_Witness ==
  /\ pc = "extracted"
  /\ end_reached
  /\ Len(Val(ret).blocks) >= 2
  /\ Len(reads) > Cardinality(PagesWithBlocks(blocks))

\* C2: the body-seen flag is true exactly when a PARAGRAPH block has been
\* appended, no INTRO block follows a PARAGRAPH block, and during one
\* extraction run the flag never goes back to false.
C2_BodySeenSticky ==
  /\ [](/\ body_seen <=> HasKind(blocks, "PARAGRAPH")
        /\ \A i, j \in 1..Len(blocks) :
             (i < j /\ blocks[i].texttype = "PARAGRAPH") => blocks[j].texttype # "INTRO")
  /\ [][(pc = "scanning" /\ body_seen) => body_seen']_vars

\* C2 witness: an intro, then body text, then a bold sans line on a later
\* page, which became a sub-heading.
C2_Witness ==
  \E i, j, k \in 1..Len(blocks) :
    /\ i < j /\ j < k
    /\ blocks[i].texttype = "INTRO"
    /\ blocks[j].texttype = "PARAGRAPH"
    /\ blocks[k].texttype = "SUBHEADING"
    /\ blocks[j].page < blocks[k].page

\* The classification table of the claim: a function of the two family
\* flags, the weight flag and the body-seen state only.
TexttypeTable(minion, univers, bold, seen) ==
  CASE minion /\ ~univers -> "BODY"
    [] univers /\ ~minion /\ bold /\ ~seen -> "INTRO"
    [] univers /\ ~minion /\ bold /\ seen -> "SUBHEADING"
    [] univers /\ ~minion /\ ~bold -> "BODY"
    [] univers /\ minion -> "BODY"

\* C3: for every line that passes the relevance filter, whatever its text,
\* position, size and column index, determine_line_texttype returns what the
\* table gives for (has_minion, has_univers, is_bold_like, body_seen).
C3_ClassifierTable ==
  (pc = "returned" /\ fn = "determine_line_texttype"
     /\ is_relevant_main_text(arg.line))
  => out = TexttypeTable(arg.line.has_minion, arg.line.has_univers,
                         arg.line.is_bold_like, arg.body_seen)

\* C3 witness: a bold sans-only line with punctuation in its text and a
\* column index, classified after body text has begun: a sub-heading.
C3_Witness ==
  /\ pc = "returned" /\ fn = "determine_line_texttype"
  /\ arg.line.has_univers /\ ~arg.line.has_minion /\ arg.line.is_bold_like
  /\ arg.body_seen
  /\ arg.line.text = T_end
  /\ arg.line.column_index = Some(1)
  /\ is_relevant_main_text(arg.line)
  /\ out = "SUBHEADING"

\* What the claim says of a text t: b is its last bullet, q the character
\* before the whitespace in front of the bullet, p the period in front of the
\* closing quotes that end at q.
FirstNonSpaceIsBullet(t) ==
  \E k \in 1..Len(t) : t[k] = Bullet /\ \A m \in 1..(k - 1) : IsSpace(t[m])

IsLastBullet(t, b) == t[b] = Bullet /\ \A m \in (b + 1)..Len(t) : t[m] # Bullet

EndsSentence(t, b, q) ==
  /\ q < b
  /\ \A m \in (q + 1)..(b - 1) : IsSpace(t[m])
  /\ \E r \in 1..q :
       /\ t[r] = Period
       /\ \A m \in (r + 1)..q : t[m] \in closing_quotes

EndMarkerCuts(t) ==
  {q \in 1..Len(t) : \E b \in 1..Len(t) : IsLastBullet(t, b) /\ EndsSentence(t, b, q)}

\* C4: check_end_marker returns (True, the text up to the period and its
\* closing quotes) exactly when the text holds a bullet, does not begin with
\* one, and a period, then closing quotes, then whitespace lead up to its
\* last bullet; otherwise (False, the text unchanged).
C4_EndMarker ==
  (pc = "returned" /\ fn = "check_end_marker")
  => LET t == arg.line.text
         cuts == IF FirstNonSpaceIsBullet(t) THEN {} ELSE EndMarkerCuts(t)
     IN /\ out[1] <=> cuts # {}
        /\ out[1] => \A q \in cuts : out[2] = SubSeq(t, 1, q)
        /\ ~out[1] => out[2] = t

\* C4 witness: period, closing quote, space, bullet, and text behind the
\* bullet: an end marker, cleaned to the period and the quote.
C4_Witness ==
  /\ pc = "returned" /\ fn = "check_end_marker"
  /\ arg.line.text = <<Period, "'", " ", Bullet, "a">>
  /\ out = <<TRUE, <<Period, "'">>>>

\* The relevant lines of document page p (an index as the page loop has it)
\* in reading order.
RelevantLines(p) ==
  reading_order(assign_columns(candidate_lines_of(collect_page_lines(load_page(doc, p)))))

IsEndLine(ln) == check_end_marker(ln)[1]

\* position of the first end-marker line of a list, 0 if there is none
FirstEnd(lines) ==
  IF \E k \in 1..Len(lines) : IsEndLine(lines[k])
  THEN CHOOSE k \in 1..Len(lines) :
         IsEndLine(lines[k]) /\ \A m \in 1..(k - 1) : ~IsEndLine(lines[m])
  ELSE 0

BlocksOfPage(bs, p) == Cardinality({k \in 1..Len(bs) : bs[k].page = p})

InRun == pc \in {"scanning", "extracted", "export"}

\* C5: once an end marker has been recognised, the last block is the one
\* built from the first end-marker line of the last page read, with the
\* cleaned text; no later line of that page gave a block; and from then on
\* no block is appended and no page is read.
C5_EndedAtMarker ==
  /\ []((end_reached /\ InRun) =>
          /\ blocks # <<>>
          /\ reads # <<>>
          /\ LET b == blocks[Len(blocks)]
                 lines == RelevantLines(b.page)
                 k == FirstEnd(lines)
             IN /\ b.page = reads[Len(reads)]
                /\ k >= 1
                /\ BlocksOfPage(blocks, b.page) = k
                /\ b.text = check_end_marker(lines[k])[2]
          /\ (pc = "extracted" => Val(ret).blocks = blocks))
  /\ [][(end_reached /\ InRun) =>
          (blocks' = blocks /\ reads' = reads /\ end_reached')]_vars

\* C5 witness: the end marker was met on the first page read while a line
\* of that page and a page of the document were still to come.
C5_Witness ==
  /\ pc = "extracted"
  /\ end_reached
  /\ Len(reads) = 1
  /\ reads[1] + 1 < Len(doc)
  /\ Len(RelevantLines(reads[1])) > Len(blocks)

\* C6: reading a page without relevant lines appends no block, leaves
\* body_seen, order_index and the last-content page as they were, does not
\* end the extraction, and moves on to the next page.
C6_EmptyPageSkipped ==
  [][(pc = "scanning" /\ reads' # reads /\ RelevantLines(page_index) = <<>>) =>
       /\ blocks' = blocks
       /\ body_seen' = body_seen
       /\ order_index' = order_index
       /\ last_page_with_content' = last_page_with_content
       /\ ~end_reached'
       /\ pc' = "scanning"
       /\ page_index' = page_index + 1]_vars

\* C6 witness: the start page held only a line of heading size, and blocks
\* were then collected from the next page.
C6_Witness ==
  /\ pc = "scanning"
  /\ start_index >= 0
  /\ Len(reads) = 2
  /\ load_page(doc, start_index) # <<>>
  /\ RelevantLines(start_index) = <<>>
  /\ blocks # <<>>
  /\ blocks[1].page = start_index + 1

\* the number of relevant lines of the pages from index p to the last page
RECURSIVE RelevantFrom(_)
RelevantFrom(p) ==
  IF p >= Len(doc) THEN 0 ELSE Len(RelevantLines(p)) + RelevantFrom(p + 1)

NoEndMarkerDiag == <<"no_end_marker", this>> \in Range(diag)

\* C7: extraction never fails once it scans; when it has returned without
\* an end marker, every relevant line from the start index to the last page
\* has its block in the returned stream and the "no end marker" diagnostic
\* has been printed; the diagnostic is printed in no other case.
C7_NoEndMarkerIsSoft ==
  /\ [](/\ (pc = "extracted" /\ ~end_reached) =>
             /\ Len(Val(ret).blocks) = RelevantFrom(start_index)
             /\ Val(ret).blocks = blocks
             /\ NoEndMarkerDiag
        /\ (pc = "extracted" /\ end_reached) => ~NoEndMarkerDiag
        /\ pc = "scanning" => ~NoEndMarkerDiag)
  /\ [][pc = "scanning" => pc' \in {"scanning", "extracted"}]_vars

\* C7 witness: the last page was read, no end marker was seen, and the
\* blocks of two pages were returned.
C7_Witness ==
  /\ pc = "extracted"
  /\ ~end_reached
  /\ page_index = Len(doc)
  /\ Cardinality(PagesWithBlocks(Val(ret).blocks)) = 2
  /\ NoEndMarkerDiag

\* the program is inside the extraction of article "this", or ended by it
InArticle == pc \in {"scanning", "extracted", "export", "crashed"}

HasMetadata == ~IsNone(article.page) /\ ~IsNone(magazine.pdf_index_offset)

ComputedStart == Val(article.page) + Val(magazine.pdf_index_offset)

\* C8: when printed start page + page offset is negative or is no page index
\* of the document, extract_article_blocks returns nothing (no block stream,
\* no end page) and no page-range field is written to the article.
C8_StartOutOfRangeIsFatal ==
  (InArticle /\ HasMetadata /\ (ComputedStart < 0 \/ ComputedStart >= Len(doc)))
  => (ret = None /\ fields[this] = NoFields)

\* C9: when the article has no printed start page or the magazine has no
\* page offset, no page of the document is read and no block is produced
\* for that article.
C9_MissingMetadataIsFatal ==
  (InArticle /\ ~HasMetadata)
  => (reads = <<>> /\ blocks = <<>> /\ ret = None)

\* the articles of the batch with a printed start page and a page offset
\* whose sum is a page index of their document: nothing is wrong with them
Extractable ==
  {ma \in Articles :
     /\ ma[1] <= Len(pdf_files)
     /\ ma[2] <= Len(pdf_files[ma[1]].articles)
     /\ LET m == pdf_files[ma[1]]
            a == m.articles[ma[2]]
        IN /\ ~IsNone(a.page)
           /\ ~IsNone(m.pdf_index_offset)
           /\ Val(a.page) + Val(m.pdf_index_offset) \in 0..(Len(m.doc) - 1)}

\* C10: when the batch has ended, every article with which nothing is wrong
\* has been extracted and exported, whatever happened to the other articles.
C10_FailureIsPerArticle ==
  pc \in {"crashed", "done"} => Extractable \subseteq exported

column_indices(lines) == [k \in 1..Len(lines) |-> lines[k].column_index]

\* C11: when assign_columns has run a second time on the lines that carry
\* the column indices of its first run, every line has the column index the
\* first run gave it (and nothing else of the line has changed).
C11_AssignColumnsIdempotent ==
  (fn = "assign_columns" /\ Len(out) = 2)
  => /\ column_indices(out[2]) = column_indices(out[1])
     /\ out[2] = out[1]

\* C11 witness: four lines in four clusters of left edges, of which the
\* first run made three columns, have been through the second run.
C11_Witness ==
  /\ fn = "assign_columns" /\ Len(out) = 2
  /\ Len(arg) = 4
  /\ {x_left(arg[k]) : k \in 1..4} = {0, 100, 200, 300}
  /\ \E k \in 1..4 : width(arg[k]) < 100
  /\ {out[1][k].column_index : k \in 1..4} = {Some(0), Some(1), Some(2)}

\* C12: when merge_multiline_headers has been applied to the list it
\* returned, the second result equals the first block for block (kind, text,
\* page, column, order_index), whatever the kinds and texts of the input,
\* empty and blank texts included.
C12_MergeHeadersFixedPoint ==
  (fn = "merge_multiline_headers" /\ Len(out) = 2) => out[2] = out[1]

\* C13: when fix_hyphenation_across_block_breaks has been applied to the
\* list it returned, the second result equals the first block for block,
\* also for three same-kind blocks in a row of which all but the last end in
\* a hyphen character.
C13_FixHyphenationFixedPoint ==
  (fn = "fix_hyphenation_across_block_breaks" /\ Len(out) = 2) => out[2] = out[1]

\* What the claim says of a merged text: cur is cut behind a letter, with
\* only whitespace and one hyphen character in what is cut off, nxt begins,
\* after whitespace only, with a letter, and the merged text is the two
\* kept parts.
MergedAtBreak(cur, nxt, merged_text) ==
  \E p \in 1..Len(cur), q \in 1..Len(nxt) :
    /\ IsLetter(cur[p])
    /\ \E h \in (p + 1)..Len(cur) :
         /\ cur[h] \in hyphen_chars
         /\ \A m \in ((p + 1)..Len(cur)) \ {h} : IsSpace(cur[m])
    /\ IsLetter(nxt[q])
    /\ \A m \in 1..(q - 1) : IsSpace(nxt[m])
    /\ merged_text = SubSeq(cur, 1, p) \o SubSeq(nxt, q, Len(nxt))

\* C14: when fix_hyphenation_across_block_breaks has made one block of a
\* pair, its text is the first text up to and with its last letters and the
\* second text from its first letters on: only the hyphen character and
\* whitespace at the break are left out.
C14_MergedTextKeepsAllButBreak ==
  (fn = "fix_hyphenation_across_block_breaks" /\ out # <<>>
     /\ Len(arg) = 2 /\ Len(out[1]) = 1)
  => MergedAtBreak(arg[1].text, arg[2].text, out[1][1].text)

\* the words of a text: its maximal runs of non-whitespace characters
RECURSIVE Words(_)
Words(t) ==
  LET u == LStrip(t)
      e == SkipForward(u, 1, Range(u) \ Whitespace)
  IN IF u = <<>> THEN <<>>
     ELSE <<SubSeq(u, 1, e - 1)>> \o Words(SubSeq(u, e, Len(u)))

\* C15: when _dehyphenate_and_reflow has been applied, with the default
\* width, to the text it returned, the second result has the same words in
\* the same order as the first, hyphens included.
C15_ReflowIdempotent ==
  (fn = "_dehyphenate_and_reflow" /\ Len(out) = 2) => Words(out[2]) = Words(out[1])

\* the non-whitespace characters of a text, in order
NonSpace(t) == Concat(Words(t))

\* the places between two words of a text, each as the number of
\* non-whitespace characters in front of it
WordGaps(t) ==
  {Len(NonSpace(SubSeq(t, 1, k))) : k \in {m \in 1..Len(t) : IsSpace(t[m])}}
    \ {0, Len(NonSpace(t))}

HasHyphenChar(t) == Range(t) \cap hyphen_chars # {}

\* C16: for a text without any hyphen character, the result of
\* _dehyphenate_and_reflow has the same non-whitespace characters in the
\* same order, and wherever two words of the input were apart, by
\* whitespace or a line break, they are apart in the result.
C16_NoHyphenOnlyWhitespace ==
  (fn = "_dehyphenate_and_reflow" /\ out # <<>> /\ ~HasHyphenChar(arg))
  => /\ NonSpace(out[1]) = NonSpace(arg)
     /\ WordGaps(arg) \subseteq WordGaps(out[1])

\* C16 witness: a text without hyphen characters of two lines, the second
\* with two words a no-break space apart, behind a word that fills the
\* first line: the result is wrapped between the last two words.
C16_Witness ==
  /\ fn = "_dehyphenate_and_reflow" /\ out # <<>>
  /\ arg = Filler \o <<Newline, "a", NoBreakSpace, "a">>
  /\ out[1] = Filler \o <<" ", "a", Newline, "a", Newline>>

\* the text the PARAGRAPH blocks at positions lo..hi of a stream give to the
\* record: each block's text and a newline
RECURSIVE ParagraphsText(_, _, _)
ParagraphsText(bs, lo, hi) ==
  IF lo > hi THEN <<>>
  ELSE (IF bs[lo].texttype = "PARAGRAPH" THEN Strip(bs[lo].text) \o <<Newline>> ELSE <<>>)
         \o ParagraphsText(bs, lo + 1, hi)

\* the position of the first SUBHEADING block behind position k, Len + 1 if
\* there is none
NextSubheading(bs, k) ==
  CHOOSE n \in (k + 1)..(Len(bs) + 1) :
    /\ n > Len(bs) \/ bs[n].texttype = "SUBHEADING"
    /\ \A m \in (k + 1)..(n - 1) : bs[m].texttype # "SUBHEADING"

\* one (header, text) pair for each SUBHEADING block from position k on
RECURSIVE PairsFrom(_, _)
PairsFrom(bs, k) ==
  IF k > Len(bs) THEN <<>>
  ELSE IF bs[k].texttype = "SUBHEADING"
  THEN <<ParagraphText(ParagraphsText(bs, k + 1, NextSubheading(bs, k) - 1),
                       Strip(bs[k].text))>> \o PairsFrom(bs, k + 1)
  ELSE PairsFrom(bs, k + 1)

PairTexts(rec) ==
  Concat([k \in 1..Len(rec.paragraph_texts) |-> rec.paragraph_texts[k].text])

FirstParagraphText(rec) ==
  IF IsNone(rec.first_paragraph) THEN <<>> ELSE Val(rec.first_paragraph)

Rendered == fn = "render_article_to_text" /\ out # <<>>

\* C17: in the record of a rendered stream that has sub-headings, the pairs
\* are, in stream order, one for each SUBHEADING block, with that block's
\* text as header and the PARAGRAPH blocks up to the next SUBHEADING block
\* or the end as text, whatever the kind of the last block; and the
\* paragraph text of the whole stream is in the record.
C17_PairPerSubheading ==
  Rendered =>
    LET rec == out[1].article_text
    IN /\ HasKind(arg, "SUBHEADING") => rec.paragraph_texts = PairsFrom(arg, 1)
       /\ FirstParagraphText(rec) \o PairTexts(rec) = ParagraphsText(arg, 1, Len(arg))

\* C18: in the record of a rendered stream, with or without a SUBHEADING
\* block, first_paragraph is the text of the PARAGRAPH blocks in front of
\* the first SUBHEADING block, and the pairs hold the text of the PARAGRAPH
\* blocks behind it and nothing else.
C18_FirstParagraph ==
  Rendered =>
    LET rec == out[1].article_text
        first == NextSubheading(arg, 0)
    IN /\ FirstParagraphText(rec) = ParagraphsText(arg, 1, first - 1)
       /\ PairTexts(rec) = ParagraphsText(arg, first, Len(arg))

\* the lines of a rendered text and the lines that are sub-headings
TextLines(t) == splitlines(t)

SubheadingTexts(bs) ==
  {Strip(bs[k].text) : k \in {m \in 1..Len(bs) : bs[m].texttype = "SUBHEADING"}}

OneBlankBefore(lines, i) ==
  /\ i >= 2 /\ lines[i - 1] = <<>>
  /\ i >= 3 => lines[i - 2] # <<>>

OneBlankBehind(lines, i) ==
  /\ i + 1 <= Len(lines) /\ lines[i + 1] = <<>>
  /\ i + 2 <= Len(lines) => lines[i + 2] # <<>>

NoBlankAtEnd(t) == Len(t) >= 2 => t[Len(t) - 1] # Newline

\* C19 as stated: in the rendered text every sub-heading line has exactly
\* one blank line in front of it and exactly one behind it, and the text
\* does not end with a blank line.
C19_BlankAroundSubheading ==
  Rendered =>
    LET lines == TextLines(out[1].text)
    IN /\ \A i \in 1..Len(lines) :
            lines[i] \in SubheadingTexts(arg)
            => OneBlankBefore(lines, i) /\ OneBlankBehind(lines, i)
       /\ NoBlankAtEnd(out[1].text)

\* C19 amended: in the rendered text every sub-heading line has exactly one
\* blank line in front of it and, unless it is the last line of the text,
\* exactly one behind it, and the text does not end with a blank line.
C19_BlankAroundSubheadingUnlessLast ==
  Rendered =>
    LET lines == TextLines(out[1].text)
    IN /\ \A i \in 1..Len(lines) :
            lines[i] \in SubheadingTexts(arg)
            => /\ OneBlankBefore(lines, i)
               /\ i < Len(lines) => OneBlankBehind(lines, i)
       /\ NoBlankAtEnd(out[1].text)

\* C19 witness: a paragraph, a sub-heading, a paragraph and a last
\* sub-heading have been rendered: the first sub-heading stands between two
\* blank lines, the second ends the text.
C19_Witness ==
  /\ Rendered
  /\ Len(arg) = 4
  /\ [k \in 1..4 |-> arg[k].texttype] = <<"PARAGRAPH", "SUBHEADING", "PARAGRAPH", "SUBHEADING">>
  /\ LET lines == TextLines(out[1].text)
     IN /\ Len(lines) = 7
        /\ lines[3] \in SubheadingTexts(arg) /\ lines[7] \in SubheadingTexts(arg)
        /\ lines[2] = <<>> /\ lines[4] = <<>> /\ lines[6] = <<>>


\* the block list bs, built from the lines src (src[k] is the line block k
\* was appended for), runs in reading order
InReadingOrder(bs, src) ==
  /\ Len(src) = Len(bs)
  /\ \A k \in 1..Len(bs) :
       /\ bs[k].column = column_or_0(src[k])
       /\ bs[k].text = check_end_marker(src[k])[2]
  /\ \A i, j \in 1..Len(bs) :
       bs[i].order_index < bs[j].order_index =>
         /\ bs[i].page <= bs[j].page
         /\ bs[i].page = bs[j].page => bs[i].column <= bs[j].column
         /\ (bs[i].page = bs[j].page /\ bs[i].column = bs[j].column)
              => src[i].y_top <= src[j].y_top

\* C20: the raw block stream is in reading order, while it is built and
\* when it is returned: of two blocks the one with the smaller order_index
\* is on the same or an earlier page; on the same page it is in the same
\* or an earlier column; and in the same column of the same page its source
\* line has a top-y not greater than that of the other.
C20_ReadingOrder ==
  /\ InReadingOrder(blocks, block_lines)
  /\ ret # None => InReadingOrder(Val(ret).blocks, block_lines)

\* a returned stream of three blocks of one page: two of one column at
\* different heights, and a block of the next column whose line lies higher
\* on the page than a line of the column before it
C20_Witness ==
  /\ ret # None
  /\ Len(Val(ret).blocks) = 3
  /\ \E i, j \in 1..3 :
       /\ i < j
       /\ blocks[i].page = blocks[j].page
       /\ blocks[i].column = blocks[j].column
       /\ block_lines[i].y_top < block_lines[j].y_top
  /\ \E i, j \in 1..3 :
       /\ i < j
       /\ blocks[i].page = blocks[j].page
       /\ blocks[i].column < blocks[j].column
       /\ block_lines[i].y_top > block_lines[j].y_top

\* the references column_lefts builds for the lines: at most three, and any
\* two of them more than the gap threshold apart
FewDistantReferences(lefts) ==
  /\ Len(lefts) \in 1..3
  /\ \A a, b \in 1..Len(lefts) :
       a # b => Abs(lefts[a] - lefts[b]) > COLUMN_GAP_THRESHOLD

\* c is the 0-based index of a reference that no other is nearer to x
IndexOfNearest(c, x, lefts) ==
  /\ c \in {0, 1, 2}
  /\ c + 1 \in 1..Len(lefts)
  /\ \A m \in 1..Len(lefts) : Abs(x - lefts[c + 1]) <= Abs(x - lefts[m])

\* C21: assign_columns on a non-empty list builds at most three references,
\* pairwise more than the gap threshold apart, and gives every line, wide or
\* narrow, the index of a reference nearest to its left edge; so every line
\* has a column index in {0, 1, 2}, and so has every block the page loop
\* makes of the lines of a page.
C21_ColumnIndexOfNearestReference ==
  /\ (fn = "assign_columns" /\ out # <<>> /\ arg # <<>>) =>
       LET lefts == column_lefts(arg)
       IN /\ FewDistantReferences(lefts)
          /\ Len(out[1]) = Len(arg)
          /\ \A k \in 1..Len(arg) :
               /\ out[1][k].column_index # None
               /\ IndexOfNearest(Val(out[1][k].column_index), x_left(arg[k]), lefts)
               /\ [out[1][k] EXCEPT !.column_index = None] = arg[k]
  /\ (fn = "scan_page" /\ pc = "returned") =>
       LET st == out[1]
           lefts == column_lefts(candidate_lines_of(collect_page_lines(arg)))
       IN /\ Len(st.block_lines) = Len(st.blocks)
          /\ \A k \in 1..Len(st.blocks) :
               IndexOfNearest(st.blocks[k].column, x_left(st.block_lines[k]), lefts)

\* C21 witness: the page loop has made blocks of four lines with left edges
\* in four clusters, one of them a narrow line that is no anchor; the blocks
\* are in the columns 0, 1 and 2 and the narrow line's block is in column 2.
C21_Witness ==
  /\ fn = "scan_page" /\ pc = "returned"
  /\ Len(arg) = 4
  /\ {x_left(arg[k]) : k \in 1..4} = {0, 100, 200, 300}
  /\ Len(out[1].blocks) = 4
  /\ {out[1].blocks[k].column : k \in 1..4} = {0, 1, 2}
  /\ \E k \in 1..4 : /\ width(out[1].block_lines[k]) < 100
                     /\ out[1].blocks[k].column = 2

\* the positions at which a maximal run of same-kind header blocks, or a
\* block that is no header, begins
RunStarts(bs) ==
  {k \in 1..Len(bs) : \/ k = 1
                      \/ bs[k].texttype \notin header_texttypes
                      \/ bs[k].texttype # bs[k - 1].texttype}

\* the j-th of these positions
RunStart(bs, j) ==
  CHOOSE s \in RunStarts(bs) : Cardinality({t \in RunStarts(bs) : t <= s}) = j

\* C22: the list merge_multiline_headers returns has one block for each
\* maximal run of same-kind header blocks and one for each other block of
\* the input, in the order of the input; the block of a run has the run's
\* kind and the page, column and order_index of the run's first block; a
\* PARAGRAPH block is the input block unchanged; and no two neighbours in
\* the result are both INTRO or both SUBHEADING.
C22_OneBlockPerHeaderRun ==
  (fn = "merge_multiline_headers" /\ out # <<>>) =>
    LET res == out[1]
    IN /\ Len(res) = Cardinality(RunStarts(arg))
       /\ \A j \in 1..Len(res) :
            LET first == arg[RunStart(arg, j)]
            IN /\ res[j].texttype = first.texttype
               /\ res[j].page = first.page
               /\ res[j].column = first.column
               /\ res[j].order_index = first.order_index
               /\ first.texttype = "PARAGRAPH" => res[j] = first
       /\ \A j \in 1..(Len(res) - 1) :
            res[j].texttype \in header_texttypes
              => res[j + 1].texttype # res[j].texttype

\* C22 witness: three SUBHEADING fragments with non-blank texts have become
\* one block
C22_Witness ==
  /\ fn = "merge_multiline_headers" /\ out # <<>>
  /\ Len(arg) = 3
  /\ \A k \in 1..3 : arg[k].texttype = "SUBHEADING" /\ Strip(arg[k].text) # <<>>
  /\ Len(out[1]) = 1
  /\ out[1][1].order_index = 0

\* two non-blank fragments joined as the claim says: without the last
\* character of the first and without a space when the first ends in one of
\* the characters of S and the second begins with a letter, with one space
\* otherwise
JoinedFragments(t1, t2, S) ==
  IF t1[Len(t1)] \in S /\ IsLetter(t2[1])
  THEN SubSeq(t1, 1, Len(t1) - 1) \o t2
  ELSE t1 \o <<" ">> \o t2

\* C23: when merge_multiline_headers has joined two non-blank header
\* fragments of one kind, the text of the block is the two stripped texts
\* joined without the last character of the first and without a space if
\* the first ends in any hyphen-like character and the second begins with a
\* letter, and joined with exactly one space in every other case.
C23_MergeDropsAnyHyphenLike ==
  (/\ fn = "merge_multiline_headers" /\ out # <<>>
   /\ Len(arg) = 2
   /\ arg[1].texttype \in header_texttypes
   /\ arg[2].texttype = arg[1].texttype
   /\ Strip(arg[1].text) # <<>> /\ Strip(arg[2].text) # <<>>)
  => /\ Len(out[1]) = 1
     /\ out[1][1].text =
          JoinedFragments(Strip(arg[1].text), Strip(arg[2].text), hyphen_chars)

\* res is bs with the pairs (k, k + 1), k in M, each made one block: the
\* pairs do not overlap and are of one kind each, the block of a pair has
\* the kind of the pair and page, column and order_index of its first block,
\* and the other blocks are those of bs, unchanged and in their order
PairsCollapsed(bs, M, res) ==
  LET firsts == {k \in 1..Len(bs) : (k - 1) \notin M}
      unit(j) == CHOOSE u \in firsts : Cardinality({t \in firsts : t <= u}) = j
  IN /\ \A k \in M : (k + 1) \notin M /\ bs[k + 1].texttype = bs[k].texttype
     /\ Len(res) = Cardinality(firsts)
     /\ \A j \in 1..Len(res) :
          IF unit(j) \in M
          THEN /\ res[j].texttype = bs[unit(j)].texttype
               /\ res[j].page = bs[unit(j)].page
               /\ res[j].column = bs[unit(j)].column
               /\ res[j].order_index = bs[unit(j)].order_index
          ELSE res[j] = bs[unit(j)]

\* C24: the list fix_hyphenation_across_block_breaks returns is its input
\* with some non-overlapping pairs of neighbours of identical kind each made
\* one block of that kind with the first block's page, column and
\* order_index; every other block is in the result unchanged, in the order
\* of the input.
C24_FixHyphenationFrame ==
  (fn = "fix_hyphenation_across_block_breaks" /\ out # <<>>) =>
    \E M \in SUBSET (1..(Len(arg) - 1)) : PairsCollapsed(arg, M, out[1])

\* C24 witness: of three PARAGRAPH blocks the last two have been made one
\* block ("woord afgebro-" and "ken verder."), with the order_index of the
\* second, and the first is unchanged in front of it
C24_Witness ==
  /\ fn = "fix_hyphenation_across_block_breaks" /\ out # <<>>
  /\ Len(arg) = 3
  /\ \A k \in 1..3 : arg[k].texttype = "PARAGRAPH"
  /\ arg[2].text = T_afgebro /\ arg[3].text = T_ken_verder
  /\ Len(out[1]) = 2
  /\ out[1][1] = arg[1]
  /\ out[1][2].order_index = 1
  /\ out[1][2].text # arg[2].text

IsPrefix(s, t) == Len(s) <= Len(t) /\ SubSeq(t, 1, Len(s)) = s

\* the page loop of extract_article_blocks over the document d from page
\* index i on, as one computation: the locals when the loop is left
RECURSIVE page_loop(_, _, _)
page_loop(d, i, st) ==
  IF i >= Len(d) THEN st
  ELSE LET st2 == scan_page(load_page(d, i), i, st)
       IN IF st2.end_reached THEN st2 ELSE page_loop(d, i + 1, st2)

\* the raw block stream of the document that ends with page index p (the
\* pages 0..p of doc), from the start index of the extraction; a document
\* without pages has no page to load
StreamOfDocumentEndingAt(p) ==
  IF p < 0 THEN <<>>
  ELSE page_loop(SubSeq(doc, 1, p + 1), start_index, fresh_locals).blocks

\* C25: during an extraction no step takes a block away or changes one: the
\* blocks collected so far stay a prefix of the list, up to the stream that
\* is returned; and after every fully processed page the blocks collected so
\* far are the raw block stream of the document that ends with that page.
C25_AppendOnly ==
  /\ [][(pc = "scanning" /\ pc' \in {"scanning", "extracted"})
          => IsPrefix(blocks, blocks')]_vars
  /\ []((InRun /\ ret # None) => Val(ret).blocks = blocks)
  /\ []((pc = "scanning" /\ reads # <<>>)
          => blocks = StreamOfDocumentEndingAt(reads[Len(reads)]))

\* C26: the end page index extract_article_blocks returns is the page of
\* the last block of the stream if the stream has a block and the start
\* index if it has none; it is never smaller than the start index; and the
\* printed end page stored on the article is that index minus the page
\* offset of the magazine.
C26_EndPageIndex ==
  /\ (InRun /\ ret # None) =>
       LET bs == Val(ret).blocks
           end_page_pdf == Val(ret).end_page_pdf
       IN /\ bs # <<>> => end_page_pdf = bs[Len(bs)].page
          /\ bs = <<>> => end_page_pdf = start_index
          /\ end_page_pdf >= start_index
  /\ pc = "export" =>
       /\ fields[this].end_page_pdf = Some(Val(ret).end_page_pdf)
       /\ magazine.pdf_index_offset # None
       /\ fields[this].end_page =
            Some(Val(ret).end_page_pdf - Val(magazine.pdf_index_offset))

\* what extract_article_text_plain gives for article e of the magazine when
\* it runs alone: the stream, the end page index and the article's fields
AloneResult(e) ==
  LET start == compute_pdf_index_for_article(magazine, magazine.articles[e]).value
      st == page_loop(doc, start, fresh_locals)
      end_page_pdf == IF IsNone(st.last_page_with_content) THEN start
                      ELSE Val(st.last_page_with_content)
  IN [blocks |-> st.blocks, end_page_pdf |-> end_page_pdf,
      fields |-> [start_page_pdf |-> Some(start),
                  end_page_pdf |-> Some(end_page_pdf),
                  end_page |-> Some(end_page_pdf - Val(magazine.pdf_index_offset))]]

\* C27: however the page-by-page steps of two extractions of one document
\* interleave, each extraction returns the block stream and the end page,
\* and writes the article fields, that it gives when it runs alone; the
\* fields of an article are written by its own extraction only.
C27_ExtractionsIndependent ==
  pc = "concurrent" =>
    \A e \in Extractions :
      /\ out[e].pc \in {"extracted", "done"} =>
           /\ Val(out[e].ret).blocks = AloneResult(e).blocks
           /\ Val(out[e].ret).end_page_pdf = AloneResult(e).end_page_pdf
      /\ out[e].pc = "done" => fields[<<1, e>>] = AloneResult(e).fields
      /\ out[e].pc # "done" => fields[<<1, e>>] = NoFields

\* C27 witness: both extractions are done; the first, begun on the first
\* page, has seen body text; the second, begun on the second page, has
\* taken the bold line at the top of its page for an intro line, as it does
\* when it runs alone
C27_Witness ==
  /\ pc = "concurrent"
  /\ \A e \in Extractions : out[e].pc = "done"
  /\ out[1].start_index = 0 /\ out[2].start_index = 1
  /\ out[1].st.body_seen
  /\ Val(out[1].ret).blocks # <<>>
  /\ Val(out[2].ret).blocks # <<>>
  /\ Val(out[2].ret).blocks[1].texttype = "INTRO"
  /\ Val(out[2].ret).blocks # Val(out[1].ret).blocks

\* a block list of the shape INTRO* (PARAGRAPH (PARAGRAPH | SUBHEADING)*)?
IntrosThenBody(bs) ==
  \A k \in 1..Len(bs) :
    /\ bs[k].texttype \in {"INTRO", "PARAGRAPH", "SUBHEADING"}
    /\ bs[k].texttype = "INTRO" => \A m \in 1..(k - 1) : bs[m].texttype = "INTRO"
    /\ bs[k].texttype = "SUBHEADING"
         => \E m \in 1..(k - 1) : bs[m].texttype = "PARAGRAPH"

\* C28: the block list extract_article_blocks builds and the stream it
\* returns consist of INTRO blocks followed by nothing or by a PARAGRAPH
\* block and then PARAGRAPH and SUBHEADING blocks in any order: no INTRO
\* block comes after a block of another kind, no SUBHEADING block comes
\* before the first PARAGRAPH block, and no block has the kind BODY.
C28_IntrosThenBody ==
  /\ IntrosThenBody(blocks)
  /\ ret # None => IntrosThenBody(Val(ret).blocks)

\* C28 witness: a returned stream of an INTRO, a PARAGRAPH and a SUBHEADING
\* block
C28_Witness ==
  /\ ret # None
  /\ Len(Val(ret).blocks) = 3
  /\ Val(ret).blocks[1].texttype = "INTRO"
  /\ Val(ret).blocks[2].texttype = "PARAGRAPH"
  /\ Val(ret).blocks[3].texttype = "SUBHEADING"

\* order_index rises strictly along the list
StrictlyIncreasing(bs) ==
  \A k \in 1..(Len(bs) - 1) : bs[k].order_index < bs[k + 1].order_index

\* C29: of a block list with strictly increasing order_index,
\* merge_multiline_headers returns a list with strictly increasing
\* order_index, and so does fix_hyphenation_across_block_breaks, and so does
\* the one applied to the result of the other as extract_article_text_plain
\* applies them; the sort by order_index of the renderer returns each of
\* these lists as it is.
C29_OrderIndexStrictlyIncreasing ==
  (/\ fn \in {"merge_multiline_headers", "fix_hyphenation_across_block_breaks",
              "merge_then_fix"}
   /\ StrictlyIncreasing(arg))
  => \A k \in 1..Len(out) :
       /\ StrictlyIncreasing(out[k])
       /\ sorted_by_order_index(out[k]) = out[k]

\* C29 witness: of four blocks the two INTRO fragments have been merged by
\* the first stage and the two PARAGRAPH blocks around a word break by the
\* second; the two blocks left have the order_index 0 and 2
C29_Witness ==
  /\ fn = "merge_then_fix" /\ Len(out) = 2
  /\ Len(arg) = 4
  /\ Len(out[1]) = 3
  /\ Len(out[2]) = 2
  /\ out[2][1].texttype = "INTRO" /\ out[2][1].order_index = 0
  /\ out[2][2].texttype = "PARAGRAPH" /\ out[2][2].order_index = 2

\* the start index is the index of a page of the document
ValidStart == start_index \in 0..(Len(doc) - 1)

\* C30: an extraction from a valid start index comes to its end: the page
\* loop is left and extract_article_blocks returns.  Up to then the pages
\* read are start index, start index + 1, ... without gap or repeat, none
\* beyond the last page; and when it has returned, either the end marker
\* was seen or every page up to the last one has been read.
C30_ExtractionTerminates ==
  /\ (pc = "scanning") ~> (pc = "extracted")
  /\ []((InRun /\ ValidStart) =>
          /\ Len(reads) <= Len(doc) - start_index
          /\ \A k \in 1..Len(reads) : reads[k] = start_index + k - 1)
  /\ []((pc = "extracted" /\ ValidStart) =>
          \/ end_reached
          \/ Len(reads) = Len(doc) - start_index)

\* C30 witness: an extraction begun on the first of two pages has returned
\* after both pages were read and no end marker was seen
C30_Witness ==
  /\ pc = "extracted"
  /\ start_index = 0
  /\ Len(doc) = 2
  /\ reads = <<0, 1>>
  /\ ~end_reached
  /\ Len(blocks) >= 2

====
